---------------------------- MODULE Spec2Model ----------------------------
(***************************************************************************)
(* Model of the streaming client of the clinical-trials agent UI:          *)
(*   - useStreamingQuery (ui/hooks/useStreamingQuery.ts): executeQuery and *)
(*     cancelQuery over the shared hook state and the AbortController ref; *)
(*   - streamQuery (ui/lib/api.ts): the async generator that fetches the   *)
(*     stream, reads it chunk by chunk and yields the decoded events.      *)
(*                                                                         *)
(* JavaScript runs one task at a time, so every action below is one run    *)
(* of the code between two suspension points (await fetch, await           *)
(* reader.read()).  In the controller specification every chunk the reader *)
(* delivers carries exactly one complete frame, so one read step yields    *)
(* one event to the for-await loop of executeQuery.                        *)
(***************************************************************************)
EXTENDS Integers, Sequences, FiniteSets, TLC

(***************************************************************************)
(* Bounds of the model.                                                    *)
(***************************************************************************)
\* number of executeQuery calls made on the one controller instance
MaxCalls == 2
\* number of deliveries of the transport, over all streams together: a
\* delivery is one event, or one failure (a rejected fetch, a bad status, a
\* missing body, a rejected read)
MaxEvents == 2

Calls == 1..MaxCalls

(***************************************************************************)
(* JavaScript values.                                                      *)
(***************************************************************************)
Null == "<null>"
Undefined == "<undefined>"
\* abortControllerRef.current === null
NoController == 0

\* JavaScript truthiness of a string | null | undefined
Truthy(s) == s # Undefined /\ s # Null /\ s # ""
\* a || d
OrElse(s, d) == IF Truthy(s) THEN s ELSE d
\* a ?? d
Coalesce(s, d) == IF s = Undefined \/ s = Null THEN d ELSE s

(***************************************************************************)
(* StreamEvent (ui/types/index.ts): every optional field is present in the *)
(* record, Undefined when the server's JSON object does not carry it.      *)
(***************************************************************************)
BlankEvent ==
  [type |-> "", stage |-> Undefined, label |-> Undefined, content |-> Undefined,
   query |-> Undefined, conversation_id |-> Undefined, answer |-> Undefined,
   sql_query |-> Undefined, message |-> Undefined, code |-> Undefined]

StageEvent(stage, label) ==
  [BlankEvent EXCEPT !.type = "stage", !.stage = stage, !.label = label]
TokenEvent(content) ==
  [BlankEvent EXCEPT !.type = "token", !.content = content]
SqlEvent(query) ==
  [BlankEvent EXCEPT !.type = "sql", !.query = query]
DoneEvent(cid, answer, sql) ==
  [BlankEvent EXCEPT !.type = "done", !.conversation_id = cid,
                     !.answer = answer, !.sql_query = sql]
ErrorEvent(message, code) ==
  [BlankEvent EXCEPT !.type = "error", !.message = message, !.code = code]

\* the events a server may frame, in any order and any number
Events ==
  { StageEvent("plan", "Planning"),
    TokenEvent("Hello "), TokenEvent(""),
    SqlEvent("SELECT 1"),
    DoneEvent("conv-1", "", Undefined),
    DoneEvent("conv-1", "Final", "SELECT 1"),
    ErrorEvent("boom", Undefined),
    ErrorEvent("slow down", "rate_limit") }

(***************************************************************************)
(* State.                                                                  *)
(***************************************************************************)
VARIABLES
  \* useStreamingQuery: the hook's React state and ref
  isStreaming, streamedContent, currentSqlQuery, currentStage, error,
  abortControllerRef,
  \* aborted[c]: signal.aborted of the AbortController created by call c
  aborted,
  \* per executeQuery call c
  pc,        \* "idle" | "fetch" (await fetch) | "read" (await reader.read())
             \* | "returned" (return result, 112) | "caught" (return null, 117)
  reader,    \* "none" | "open" | "eof" | "cancelled": the response body reader
  result,    \* the local `result`: << >> for null, <<r>> for a StreamResult r
  retval,    \* what the promise resolved to, once pc[c] = "returned"
  log,       \* the observer callbacks call c has invoked, in order
  processed, \* the events that reached the branches of call c's loop body, in order
  \* number of deliveries so far (bounds the model)
  nevents,
  \* history: the phase ("fetch" | "read") call c was in when abort() was called
  \* on its controller, "none" before that
  abortedIn

hookVars == <<isStreaming, streamedContent, currentSqlQuery, currentStage, error>>
callVars == <<pc, reader, result, retval, log, processed>>
abortVars == <<abortControllerRef, aborted, abortedIn>>

(***************************************************************************)
(* State of the other components.  Each component is checked under a       *)
(* specification of its own; under the specification of another component  *)
(* its variables rest at the values given by the ...Unused predicates.     *)
(***************************************************************************)
VARIABLES
  \* the frame decoder of streamQuery (api.ts 118-152)
  frames,    \* what the server framed: a sequence of frames, each a sequence of lines
  delivered, \* number of characters of the response body read so far
  buffer,    \* the local `buffer`
  yielded,   \* the values the generator has yielded, in order
  generator, \* where the generator is: "read" (await reader.read()), "yield"
             \* (suspended at `yield data`), "end" (the body was read to its
             \* end), "closed" (the consumer left its loop at a value)
  remaining, \* the elements of `lines` the for-loop has not examined yet
  cuts,      \* history: where chunk boundaries fell ("frame", "separator")
  \* the browser around lib/api.ts, lib/settings.ts and the client-id module
  hasWindow,    \* typeof window !== "undefined"
  device,       \* the device characteristics read by generateDeviceFingerprint
  localStorage, \* [clientId, apiKey]: the two keys, Null when absent
  apiBaseUrl,   \* API_BASE_URL
  requests,     \* per request: "free" | "sent" (awaiting fetch) | "done"
  wire,         \* the request last handed to fetch: << >> or <<[via, url, headers]>>
  lastCall,     \* history: the last client-id call [op, arg, ret]
  derived,      \* history: what the last two cache misses of getClientId returned
  issued,       \* history: the identity a response last wrote, Null once the
                \* caller has set or cleared the cache since
  \* useConversation (useStreamingQuery.ts 176-289)
  persisted,             \* per conversation id: detail.messages as the server holds it
  selectPc,              \* per selectConversation call: "idle" | "await" | "done" | "failed"
  selectId,              \* per selectConversation call: its argument `id`
  currentConversationId, \* the `currentConversationId` state
  messages,              \* the `messages` state
  isLoading,             \* the `isLoading` state
  conversationError,     \* the `error` state of useConversation
  conversations,         \* the `conversations` state: the ids of the summaries
  refreshing,            \* number of refreshConversations calls that await
                         \* getConversations
  removal,               \* << >>, or <<[id, currentConversationId]>>: the
                         \* removeConversation call that awaits
                         \* deleteConversation, its argument and the
                         \* currentConversationId of its closure
  \* the loop of selectConversation over detail.messages (211-230)
  detailMessages,        \* detail.messages
  cursor,                \* number of records the for-loop has been through
  locals,                \* [pendingSqlQuery, transformedMessages]
  \* ChatInterface (components/ChatInterface.tsx 53-145)
  submission,            \* per handleSubmit call that reached executeQuery:
                         \* what its closure and callbacks hold, the local
                         \* `result` and whether executeQuery is still awaited
  chatError,             \* the `error` state of ChatInterface
  invoked                \* history: << >>, or <<[cb, threw, by, opened]>>: the
                         \* callback last invoked, whether its update of the
                         \* messages threw, the submission it belongs to and
                         \* what it called openSettings with

decoderVars == <<frames, delivered, buffer, yielded, generator, remaining, cuts>>
clientVars == <<hasWindow, device, localStorage, apiBaseUrl, requests, wire,
                lastCall, derived, issued>>
listVars == <<conversations, refreshing, removal>>
loopVars == <<detailMessages, cursor, locals>>
chatVars == <<submission, chatError, invoked>>
reconcilerVars == <<persisted, selectPc, selectId, currentConversationId,
                    messages, isLoading, conversationError, listVars,
                    loopVars, chatVars>>
vars == <<hookVars, callVars, abortVars, nevents,
          decoderVars, clientVars, reconcilerVars>>

DecoderUnused ==
  /\ frames = << >>
  /\ delivered = 0
  /\ buffer = ""
  /\ yielded = << >>
  /\ generator = "end"
  /\ remaining = << >>
  /\ cuts = {}

\* the localStorage keys (home.spec.ts 148, settings.ts 6)
CLIENT_ID_KEY == "clinical-trials-client-id"
OPENAI_API_KEY_STORAGE_KEY == "clinical-trials-openai-api-key"

\* localStorage without either key: getItem gives null
EmptyStorage ==
  [k \in {CLIENT_ID_KEY, OPENAI_API_KEY_STORAGE_KEY} |-> Null]

ClientUnused ==
  /\ hasWindow = FALSE
  /\ device = << >>
  /\ localStorage = EmptyStorage
  /\ apiBaseUrl = ""
  /\ requests = << >>
  /\ wire = << >>
  /\ lastCall = << >>   \* << >> for none yet, <<call>> otherwise
  /\ derived = <<Null, Null>>
  /\ issued = Null

\* the loop's locals before its first iteration (211-212)
LoopUnused ==
  /\ detailMessages = << >>
  /\ cursor = 0
  /\ locals = [pendingSqlQuery |-> Null, transformedMessages |-> << >>]

\* useConversation and ChatInterface at rest
HookUnused ==
  /\ persisted = << >>
  /\ selectPc = << >>
  /\ selectId = << >>
  /\ currentConversationId = Null
  /\ messages = << >>
  /\ isLoading = FALSE
  /\ conversationError = Null
  /\ conversations = << >>
  /\ refreshing = 0
  /\ removal = << >>
  /\ submission = << >>
  /\ chatError = Null
  /\ invoked = << >>

ReconcilerUnused == HookUnused /\ LoopUnused

Init ==
  /\ isStreaming = FALSE
  /\ streamedContent = ""
  /\ currentSqlQuery = Null
  /\ currentStage = Null
  /\ error = Null
  /\ abortControllerRef = NoController
  /\ aborted = [c \in Calls |-> FALSE]
  /\ pc = [c \in Calls |-> "idle"]
  /\ reader = [c \in Calls |-> "none"]
  /\ result = [c \in Calls |-> << >>]
  /\ retval = [c \in Calls |-> << >>]
  /\ log = [c \in Calls |-> << >>]
  /\ processed = [c \in Calls |-> << >>]
  /\ nevents = 0
  /\ abortedIn = [c \in Calls |-> "none"]
  /\ DecoderUnused /\ ClientUnused /\ ReconcilerUnused

(***************************************************************************)
(* cancelQuery (useStreamingQuery.ts 55-61).                               *)
(***************************************************************************)
\* abortControllerRef.current.abort() when the ref holds a controller
AbortCurrent ==
  IF abortControllerRef # NoController
    THEN [aborted EXCEPT ![abortControllerRef] = TRUE]
    ELSE aborted

\* history of the abort above
AbortPhase ==
  IF abortControllerRef # NoController
    THEN [abortedIn EXCEPT ![abortControllerRef] = pc[abortControllerRef]]
    ELSE abortedIn

cancelQuery ==
  /\ aborted' = AbortCurrent
  /\ abortedIn' = AbortPhase
  /\ abortControllerRef' = NoController
  /\ isStreaming' = FALSE
  /\ UNCHANGED <<streamedContent, currentSqlQuery, currentStage, error,
                 callVars, nevents>>
  /\ UNCHANGED <<decoderVars, clientVars, reconcilerVars>>

(***************************************************************************)
(* streamQuery (api.ts 73-153) as called by executeQuery.                  *)
(***************************************************************************)
\* the `signal` argument of streamQuery: the call site (useStreamingQuery.ts 83)
\* passes question and conversationId only, so the parameter is undefined
StreamSignal(c) == NoController

\* signal?.aborted (api.ts 123, 149); the same signal is handed to fetch
\* (api.ts 99), which has no effect when it is undefined
SignalAborted(c, ab) ==
  StreamSignal(c) # NoController /\ ab[StreamSignal(c)]

\* abortControllerRef.current?.signal.aborted (useStreamingQuery.ts 85)
LoopAborted ==
  abortControllerRef # NoController /\ aborted[abortControllerRef]

\* what a rejected promise or a throw carries: an Error with its message, or
\* a value that is not an Error
ErrorObject(message) == [isError |-> TRUE, message |-> message]
NotAnError == [isError |-> FALSE, message |-> Undefined]

\* the body of a response that is not ok: text that is not JSON, the JSON
\* value null, or a JSON object whose `detail` is absent (Undefined), a
\* string, or the empty array
EmptyArray == "<[]>"
TextBody == [json |-> FALSE, null |-> FALSE, detail |-> Undefined]
NullBody == [json |-> TRUE, null |-> TRUE, detail |-> Undefined]
JsonBody(detail) == [json |-> TRUE, null |-> FALSE, detail |-> detail]

\* response.json().catch(() => ({ detail: "Unknown error" })) (api.ts 109)
ResponseJson(body) == IF body.json THEN body ELSE JsonBody("Unknown error")

\* String(v) as new Error(v) applies it to its argument: [] gives ""
String(v) == IF v = EmptyArray THEN "" ELSE v

\* the decimal digits of a status code, as the template literal writes them
RECURSIVE Decimal(_)
Decimal(n) ==
  IF n < 10 THEN SubSeq("0123456789", n + 1, n + 1)
  ELSE Decimal(n \div 10) \o SubSeq("0123456789", (n % 10) + 1, (n % 10) + 1)

\* a transport failure: where streamQuery fails and what the network gave
Failure(kind, status, body, thrown) ==
  [kind |-> kind, status |-> status, body |-> body, thrown |-> thrown]

\* the values fetch() and reader.read() may reject with (api.ts 92, 128)
Rejections == {ErrorObject("Failed to fetch"), NotAnError}

\* the failures before the first read: fetch rejects, the status is not ok
\* (each shape of error body), the response has no body
TransportFailures ==
  {Failure("fetch rejects", 0, TextBody, x) : x \in Rejections}
  \cup {Failure("status", 429, JsonBody("Rate limited"), NotAnError),
        Failure("status", 502, TextBody, NotAnError),
        Failure("status", 404, JsonBody(Undefined), NotAnError),
        Failure("status", 422, JsonBody(EmptyArray), NotAnError),
        Failure("status", 500, NullBody, NotAnError),
        Failure("no body", 200, TextBody, NotAnError)}

\* the failures of a read: reader.read() rejects
ReadFailures ==
  {Failure("read rejects", 200, TextBody, ErrorObject("network error"))}

\* what leaves streamQuery for a failure (api.ts 92, 108-116, 128): the
\* rejection itself, or the Error the code throws; reading `detail` of null
\* throws a TypeError
Thrown(f) ==
  CASE f.kind \in {"fetch rejects", "read rejects"} -> f.thrown
    [] f.kind = "status" ->
         IF ResponseJson(f.body).null
           THEN ErrorObject("Cannot read properties of null (reading 'detail')")
           ELSE ErrorObject(String(OrElse(ResponseJson(f.body).detail,
                                          "HTTP error " \o Decimal(f.status))))
    [] f.kind = "no body" -> ErrorObject("No response body")

\* err instanceof Error ? err.message : "An error occurred"
\* (useStreamingQuery.ts 114)
TransportMessage(f) ==
  IF Thrown(f).isError THEN Thrown(f).message ELSE "An error occurred"

(***************************************************************************)
(* executeQuery (useStreamingQuery.ts 63-124): the event loop's branches.  *)
(***************************************************************************)
\* one observer invocation: onStage(a, b), onToken(a), onSql(a),
\* onComplete(res[1]), onError(a, b)
Callback(cb, a, b, res) == [cb |-> cb, a |-> a, b |-> b, res |-> res]

\* the branch conditions of the if / else-if chain (89, 92, 95, 98, 105)
IsStage(e) == e.type = "stage" /\ Truthy(e.label)
IsToken(e) == e.type = "token" /\ Truthy(e.content)
IsSql(e) == e.type = "sql" /\ Truthy(e.query)
IsDone(e) == e.type = "done"
IsError(e) == e.type = "error"

\* a variant of DoneResult that merges the accumulated token text into an
\* empty answer
DoneResultMerged(e) ==
  [conversationId |-> OrElse(e.conversation_id, ""),
   answer |-> OrElse(e.answer, streamedContent),
   sqlQuery |-> Coalesce(e.sql_query, Null)]

\* the StreamResult built from a done event (99-103)
DoneResult(e) ==
  [conversationId |-> OrElse(e.conversation_id, ""),
   answer |-> OrElse(e.answer, ""),
   sqlQuery |-> Coalesce(e.sql_query, Null)]

\* const errorMsg = event.message || "An error occurred" (106)
ErrorMsg(e) == OrElse(e.message, "An error occurred")

\* a variant of ErrorCallback that drops the code
ErrorCallbackNoCode(e) == Callback("onError", ErrorMsg(e), Undefined, << >>)

\* callbacks?.onError?.(errorMsg, event.code) (108)
ErrorCallback(e) == Callback("onError", ErrorMsg(e), e.code, << >>)

\* a variant of Dispatch that hands onToken the text accumulated so far
DispatchCumulative(e) ==
  CASE IsStage(e) -> << Callback("onStage", OrElse(e.stage, ""), e.label, << >>) >>
    [] IsToken(e) -> << Callback("onToken", streamedContent \o e.content, Undefined, << >>) >>
    [] IsSql(e) -> << Callback("onSql", e.query, Undefined, << >>) >>
    [] IsDone(e) -> << Callback("onComplete", Undefined, Undefined, << DoneResult(e) >>) >>
    [] IsError(e) -> << ErrorCallback(e) >>
    [] OTHER -> << >>

\* the observer invocations one event causes, in order (91, 94, 97, 104, 108)
Dispatch(e) ==
  CASE IsStage(e) -> << Callback("onStage", OrElse(e.stage, ""), e.label, << >>) >>
    [] IsToken(e) -> << Callback("onToken", e.content, Undefined, << >>) >>
    [] IsSql(e) -> << Callback("onSql", e.query, Undefined, << >>) >>
    [] IsDone(e) -> << Callback("onComplete", Undefined, Undefined, << DoneResult(e) >>) >>
    [] IsError(e) -> << ErrorCallback(e) >>
    [] OTHER -> << >>

\* a variant of CatchCallback that classifies the failure with a code
CatchCallbackCoded(msg) == Callback("onError", msg, "transport", << >>)

\* the catch block's callbacks?.onError?.(errorMsg) (114-116)
CatchCallback(msg) == Callback("onError", msg, Undefined, << >>)

\* a variant of Return whose finally block leaves the controller in the ref
ReturnKeepsRef(c, at, value) ==
  /\ pc' = [pc EXCEPT ![c] = at]
  /\ retval' = [retval EXCEPT ![c] = value]
  /\ isStreaming' = FALSE
  /\ UNCHANGED abortControllerRef

\* return value; then finally (112, 117, 119-120)
Return(c, at, value) ==
  /\ pc' = [pc EXCEPT ![c] = at]
  /\ retval' = [retval EXCEPT ![c] = value]
  /\ isStreaming' = FALSE
  /\ abortControllerRef' = NoController

\* the generator's finally block (api.ts 148-152): the reader ends as `rd`
\* unless the signal is aborted, and then it is cancelled
ReaderAtExit(c, rd) == IF SignalAborted(c, aborted) THEN "cancelled" ELSE rd

(***************************************************************************)
(* executeQuery up to its first suspension: cancelQuery(), the state       *)
(* reset, the new AbortController and streamQuery up to `await fetch`.     *)
(***************************************************************************)
executeQuery(c) ==
  /\ pc[c] = "idle"
  /\ \A d \in Calls : d < c => pc[d] # "idle"
  /\ aborted' = AbortCurrent
  /\ abortedIn' = AbortPhase
  /\ isStreaming' = TRUE
  /\ streamedContent' = ""
  /\ currentSqlQuery' = Null
  /\ currentStage' = Null
  /\ error' = Null
  /\ abortControllerRef' = c
  /\ pc' = [pc EXCEPT ![c] = "fetch"]
  /\ UNCHANGED <<reader, result, retval, log, processed, nevents>>
  /\ UNCHANGED <<decoderVars, clientVars, reconcilerVars>>

(***************************************************************************)
(* fetch resolved with an ok response that has a body (api.ts 92-128):     *)
(* the reader is taken and the first reader.read() is awaited, unless the  *)
(* signal is already aborted.                                              *)
(***************************************************************************)
FetchOk(c) ==
  /\ pc[c] = "fetch"
  /\ IF SignalAborted(c, aborted)
       THEN /\ reader' = [reader EXCEPT ![c] = "cancelled"]
            /\ Return(c, "returned", result[c])
       ELSE /\ reader' = [reader EXCEPT ![c] = "open"]
            /\ pc' = [pc EXCEPT ![c] = "read"]
            /\ UNCHANGED <<retval, isStreaming, abortControllerRef>>
  /\ UNCHANGED <<streamedContent, currentSqlQuery, currentStage, error,
                 aborted, abortedIn, result, log, processed, nevents>>
  /\ UNCHANGED <<decoderVars, clientVars, reconcilerVars>>

(***************************************************************************)
(* A transport failure: streamQuery throws (fetch rejects, a non-ok        *)
(* status, no body, or reader.read() rejects); executeQuery's catch block  *)
(* (113-117) reports it and the finally block runs.                        *)
(***************************************************************************)
Catch(c, msg) ==
  /\ nevents < MaxEvents
  /\ nevents' = nevents + 1
  /\ error' = msg
  /\ log' = [log EXCEPT ![c] = Append(@, CatchCallback(msg))]
  /\ Return(c, "caught", << >>)
  /\ UNCHANGED <<streamedContent, currentSqlQuery, currentStage,
                 aborted, abortedIn, result, processed>>

FetchFail(c, f) ==
  /\ pc[c] = "fetch"
  /\ Catch(c, TransportMessage(f))
  /\ UNCHANGED reader
  /\ UNCHANGED <<decoderVars, clientVars, reconcilerVars>>

ReadFail(c, f) ==
  /\ pc[c] = "read"
  /\ reader' = [reader EXCEPT ![c] = ReaderAtExit(c, "open")]
  /\ Catch(c, TransportMessage(f))
  /\ UNCHANGED <<decoderVars, clientVars, reconcilerVars>>

(***************************************************************************)
(* reader.read() resolved with a chunk holding one frame whose payload is  *)
(* event e: streamQuery yields e and the loop body of executeQuery (83-110)*)
(* runs; then the generator goes back to the top of its loop.              *)
(***************************************************************************)
ReadEvent(c, e) ==
  /\ pc[c] = "read"
  /\ nevents < MaxEvents
  /\ nevents' = nevents + 1
  /\ IF LoopAborted
       THEN \* break: the generator is closed at its yield and its finally runs
            /\ reader' = [reader EXCEPT ![c] = ReaderAtExit(c, "open")]
            /\ Return(c, "returned", result[c])
            /\ UNCHANGED <<streamedContent, currentSqlQuery, currentStage,
                           error, result, log, processed>>
       ELSE /\ currentStage' = IF IsStage(e) THEN e.label ELSE currentStage
            /\ streamedContent' =
                 IF IsToken(e) THEN streamedContent \o e.content ELSE streamedContent
            /\ currentSqlQuery' = IF IsSql(e) THEN e.query ELSE currentSqlQuery
            /\ result' = IF IsDone(e) THEN [result EXCEPT ![c] = << DoneResult(e) >>]
                                      ELSE result
            /\ error' = IF IsError(e) THEN ErrorMsg(e) ELSE error
            /\ log' = [log EXCEPT ![c] = @ \o Dispatch(e)]
            /\ processed' = [processed EXCEPT ![c] = Append(@, e)]
            /\ IF SignalAborted(c, aborted)
                 THEN /\ reader' = [reader EXCEPT ![c] = "cancelled"]
                      /\ Return(c, "returned", result'[c])
                 ELSE UNCHANGED <<reader, pc, retval, isStreaming, abortControllerRef>>
  /\ UNCHANGED <<aborted, abortedIn>>
  /\ UNCHANGED <<decoderVars, clientVars, reconcilerVars>>

(***************************************************************************)
(* reader.read() resolved with done: the generator ends, the for-await     *)
(* loop ends and executeQuery returns `result` (api.ts 129, 148-152;       *)
(* useStreamingQuery.ts 112, 118-121).                                     *)
(***************************************************************************)
ReadDone(c) ==
  /\ pc[c] = "read"
  /\ reader' = [reader EXCEPT ![c] = ReaderAtExit(c, "eof")]
  /\ Return(c, "returned", result[c])
  /\ UNCHANGED <<streamedContent, currentSqlQuery, currentStage, error,
                 aborted, abortedIn, result, log, processed, nevents>>
  /\ UNCHANGED <<decoderVars, clientVars, reconcilerVars>>

Next ==
  \/ \E c \in Calls : executeQuery(c)
  \/ cancelQuery
  \/ \E c \in Calls : FetchOk(c)
  \/ \E c \in Calls : \E f \in TransportFailures : FetchFail(c, f)
  \/ \E c \in Calls : \E e \in Events : ReadEvent(c, e)
  \/ \E c \in Calls : \E f \in ReadFailures : ReadFail(c, f)
  \/ \E c \in Calls : ReadDone(c)

Spec == Init /\ [][Next]_vars

(***************************************************************************)
(* Vocabulary of the properties.                                           *)
(***************************************************************************)
Started(c) == pc[c] # "idle"
Ended(c) == pc[c] \in {"returned", "caught"}

\* call c was aborted by a cancelQuery() call of its own, not by the
\* cancelQuery() at the start of a later executeQuery
Cancelled(c) == aborted[c] /\ \A d \in Calls : d > c => ~Started(d)

\* call c is consuming its stream and the next event it receives is
\* dispatched to its observers (the check at useStreamingQuery.ts 85 passes)
CanInvoke(c) == pc[c] = "read" /\ ~LoopAborted

OnErrors(l) == SelectSeq(l, LAMBDA x : x.cb = "onError")
Terminals(l) == SelectSeq(l, LAMBDA x : x.cb \in {"onComplete", "onError"})
ErrorEvents(evs) == SelectSeq(evs, LAMBDA e : e.type = "error")
HasTerminalEvent(evs) == \E i \in 1..Len(evs) : evs[i].type \in {"done", "error"}

\* the onError invocations of call c that answer error events: all of them,
\* but the one the catch block made
EventOnErrors(c) ==
  IF pc[c] = "caught" THEN SubSeq(OnErrors(log[c]), 1, Len(OnErrors(log[c])) - 1)
                      ELSE OnErrors(log[c])

\* the concatenation, in order, of the token fragments among the events evs
RECURSIVE TokenText(_)
TokenText(evs) ==
  IF evs = << >> THEN ""
  ELSE LET last == evs[Len(evs)]
       IN TokenText(SubSeq(evs, 1, Len(evs) - 1))
            \o (IF last.type = "token" /\ Truthy(last.content) THEN last.content ELSE "")

\* the position in processed[c] of the last done event (0 when there is none)
LastDone(c) ==
  LET ds == {i \in 1..Len(processed[c]) : processed[c][i].type = "done"}
  IN IF ds = {} THEN 0 ELSE CHOOSE i \in ds : \A j \in ds : j <= i

(***************************************************************************)
(* C1: once a second executeQuery call has started, no event the earlier   *)
(* call's stream still carries makes the earlier call invoke onComplete or *)
(* onError.                                                                *)
(***************************************************************************)
C1_SupersededCallIsSilent ==
  [][\A c, d \in Calls :
       (c < d /\ Started(d) /\ processed'[c] # processed[c])
         => Terminals(log'[c]) = Terminals(log[c])]_vars

(***************************************************************************)
(* C2: at most one executeQuery call of the controller is active, that is  *)
(* consuming its stream and able to invoke its observers.                  *)
(***************************************************************************)
C2_AtMostOneActive ==
  Cardinality({c \in Calls : CanInvoke(c)}) <= 1

(***************************************************************************)
(* C3: after cancelQuery() on a request whose stream is being consumed, no *)
(* event the stream delivers invokes a callback of that request, and the   *)
(* call returns null.                                                      *)
(***************************************************************************)
C3_NoCallbackAfterCancel ==
  [][\A c \in Calls :
       (Cancelled(c) /\ abortedIn[c] = "read" /\ pc'[c] # "caught")
         => /\ log'[c] = log[c]
            /\ pc'[c] = "returned" => retval'[c] = << >>]_vars

(***************************************************************************)
(* C4: a request cancelled while its reader is open has the reader         *)
(* cancelled by the time the generator completes and the call ends.        *)
(***************************************************************************)
C4_CancelReleasesReader ==
  [][\A c \in Calls :
       (abortedIn[c] = "read" /\ reader[c] = "open" /\ pc'[c] = "returned")
         => reader'[c] = "cancelled"]_vars

(***************************************************************************)
(* C5: once a call has processed a done or error event, no later event of  *)
(* its stream invokes a callback of that call.                             *)
(***************************************************************************)
C5_TerminalEventIsLast ==
  [][\A c \in Calls :
       (HasTerminalEvent(processed[c]) /\ pc'[c] # "caught")
         => log'[c] = log[c]]_vars

(***************************************************************************)
(* C6 as claimed: the Result of a done event has the event's answer when   *)
(* that is non-empty, and otherwise the concatenation of the token         *)
(* fragments the call received before it.                                  *)
(***************************************************************************)
C6_AnswerFallsBackToTokens ==
  \A c \in Calls :
    result[c] # << >> =>
      LET i == LastDone(c)
          e == processed[c][i]
      IN result[c][1].answer =
           (IF Truthy(e.answer) THEN e.answer
                                ELSE TokenText(SubSeq(processed[c], 1, i - 1)))

(***************************************************************************)
(* C6 as amended: the Result of a done event, which is what onComplete     *)
(* receives, has the event's answer when that is non-empty and the empty   *)
(* string otherwise, whatever tokens the call received before.             *)
(***************************************************************************)
C6_AnswerIsEventAnswer ==
  \A c \in Calls :
    result[c] # << >> =>
      LET i == LastDone(c)
          e == processed[c][i]
          completes == SelectSeq(log[c], LAMBDA x : x.cb = "onComplete")
      IN /\ i > 0
         /\ result[c][1].answer = (IF Truthy(e.answer) THEN e.answer ELSE "")
         /\ completes # << >>
         /\ completes[Len(completes)].res = result[c]

\* a call that received a token and then a done event with an empty answer
C6_Witness ==
  \E c \in Calls :
    /\ Len(processed[c]) = 2
    /\ processed[c][1] = TokenEvent("Hello ")
    /\ processed[c][2] = DoneEvent("conv-1", "", Undefined)
    /\ result[c] # << >>
    /\ result[c][1].answer = ""

(***************************************************************************)
(* C7: a call that processed an error event invoked onError with the       *)
(* event's message and, once it has ended, returned null.                  *)
(***************************************************************************)
C7_ErrorEventReturnsNull ==
  \A c \in Calls :
    \A i \in 1..Len(processed[c]) :
      processed[c][i].type = "error" =>
        /\ \E j \in 1..Len(log[c]) :
             log[c][j].cb = "onError" /\ log[c][j].a = processed[c][i].message
        /\ Ended(c) => retval[c] = << >>

(***************************************************************************)
(* C8: the k-th error event a call processes makes its k-th onError        *)
(* invocation, with the event's message and with the event's code, or      *)
(* undefined when the event has none.                                      *)
(***************************************************************************)
C8_ErrorCodeUnchanged ==
  \A c \in Calls :
    LET errs == ErrorEvents(processed[c])
        ons == EventOnErrors(c)
    IN /\ Len(ons) = Len(errs)
       /\ \A k \in 1..Len(errs) :
            /\ ons[k].b = errs[k].code
            /\ ons[k].a = (IF Truthy(errs[k].message) THEN errs[k].message
                                                     ELSE "An error occurred")

\* onError was invoked with the code "rate_limit" for one error event and
\* with undefined for another
C8_Witness ==
  /\ \E c \in Calls : \E k \in 1..Len(EventOnErrors(c)) :
       /\ EventOnErrors(c)[k].b = "rate_limit"
       /\ ErrorEvents(processed[c])[k].code = "rate_limit"
  /\ \E c \in Calls : \E k \in 1..Len(EventOnErrors(c)) :
       /\ EventOnErrors(c)[k].b = Undefined
       /\ ErrorEvents(processed[c])[k].code = Undefined

\* the messages the catch block can report for a transport failure
FailureMessages ==
  {TransportMessage(f) : f \in TransportFailures \cup ReadFailures}

(***************************************************************************)
(* C9: a call that ended on a transport failure returned null and invoked  *)
(* onError for it exactly once (one invocation more than the error events  *)
(* it processed), last, with the failure's message and no code.            *)
(***************************************************************************)
C9_TransportFailureReported ==
  \A c \in Calls :
    pc[c] = "caught" =>
      /\ retval[c] = << >>
      /\ Len(OnErrors(log[c])) = Len(ErrorEvents(processed[c])) + 1
      /\ log[c][Len(log[c])].cb = "onError"
      /\ log[c][Len(log[c])].a \in FailureMessages
      /\ log[c][Len(log[c])].b = Undefined

\* calls that ended on a failure before any reader existed and on a failure
\* of a read
C9_Witness ==
  /\ \E c \in Calls : pc[c] = "caught" /\ reader[c] = "none"
  /\ \E c \in Calls : pc[c] = "caught" /\ reader[c] = "open"

(***************************************************************************)
(* C10: after cancelQuery() on a request, nothing its stream delivers      *)
(* invokes onError for it, and the cancelled call returns null.            *)
(***************************************************************************)
C10_CancelIsNotAnError ==
  [][\A c \in Calls :
       (Cancelled(c) /\ pc'[c] # "caught")
         => /\ OnErrors(log'[c]) = OnErrors(log[c])
            /\ pc'[c] = "returned" => retval'[c] = << >>]_vars


(***************************************************************************)
(* JavaScript strings.  A string is a TLA+ string; positions in the        *)
(* operators named after String.prototype methods count from 0 as in the   *)
(* source.                                                                 *)
(***************************************************************************)
startsWith(s, p) == Len(s) >= Len(p) /\ SubSeq(s, 1, Len(p)) = p

includes(s, p) ==
  \E i \in 1..(Len(s) - Len(p) + 1) : SubSeq(s, i, i + Len(p) - 1) = p

\* s.slice(a, b) and s.slice(a) for 0 <= a
slice(s, a, b) == SubSeq(s, a + 1, IF b < Len(s) THEN b ELSE Len(s))
sliceFrom(s, a) == SubSeq(s, a + 1, Len(s))

RECURSIVE padStart(_, _, _)
padStart(s, n, c) == IF Len(s) >= n THEN s ELSE padStart(c \o s, n, c)

\* s.split("").reverse().join("")
RECURSIVE reverse(_)
reverse(s) == IF s = "" THEN "" ELSE reverse(Tail(s)) \o SubSeq(s, 1, 1)

\* s.trim() for the white space the model uses (space and line feed)
WhiteSpace == {" ", "\n"}
RECURSIVE trimStart(_)
trimStart(s) ==
  IF s # "" /\ SubSeq(s, 1, 1) \in WhiteSpace THEN trimStart(Tail(s)) ELSE s
RECURSIVE trimEnd(_)
trimEnd(s) ==
  IF s # "" /\ SubSeq(s, Len(s), Len(s)) \in WhiteSpace
    THEN trimEnd(SubSeq(s, 1, Len(s) - 1)) ELSE s
trim(s) == trimEnd(trimStart(s))

\* the printable ASCII characters: codes 32..95 and 97..126
AsciiLow ==
  " !\"#$%&'()*+,-./0123456789:;<=>?@ABCDEFGHIJKLMNOPQRSTUVWXYZ[\\]^_"
AsciiHigh == "abcdefghijklmnopqrstuvwxyz{|}~"

\* str.charCodeAt(i) of the one-character string ch
charCode(ch) ==
  IF \E i \in 1..Len(AsciiLow) : SubSeq(AsciiLow, i, i) = ch
    THEN 31 + (CHOOSE i \in 1..Len(AsciiLow) : SubSeq(AsciiLow, i, i) = ch)
    ELSE 96 + (CHOOSE i \in 1..Len(AsciiHigh) : SubSeq(AsciiHigh, i, i) = ch)

\* the decimal text of an integer n >= 0, as in a template literal
Digits == "0123456789abcdef"
RECURSIVE toDecimal(_)
toDecimal(n) ==
  IF n < 10 THEN SubSeq(Digits, n + 1, n + 1)
            ELSE toDecimal(n \div 10) \o SubSeq(Digits, (n % 10) + 1, (n % 10) + 1)

(***************************************************************************)
(* 32-bit integers.  A value is kept as two 16-bit halves [hi, lo], so     *)
(* that every intermediate result stays inside the range of the checker's  *)
(* integers while the arithmetic is that of the source modulo 2^32.        *)
(***************************************************************************)
Half == 65536

Word(hi, lo) == [hi |-> hi, lo |-> lo]

\* a ^ b on non-negative integers
RECURSIVE BitXor(_, _)
BitXor(a, b) ==
  IF a = 0 THEN b
  ELSE IF b = 0 THEN a
  ELSE ((a + b) % 2) + 2 * BitXor(a \div 2, b \div 2)

\* (w).toString(16) of the unsigned value
RECURSIVE hex(_, _)
hex(n, width) ==
  IF width = 0 THEN ""
  ELSE hex(n \div 16, width - 1) \o SubSeq(Digits, (n % 16) + 1, (n % 16) + 1)
RECURSIVE stripZeros(_)
stripZeros(s) ==
  IF Len(s) > 1 /\ SubSeq(s, 1, 1) = "0" THEN stripZeros(Tail(s)) ELSE s
toString16(w) == stripZeros(hex(w.hi, 4) \o hex(w.lo, 4))

\* `${w}` of the unsigned value: long division by ten on the two halves
RECURSIVE wordDecimal(_)
wordDecimal(w) ==
  IF w.hi = 0 THEN toDecimal(w.lo)
  ELSE LET t == (w.hi % 10) * Half + w.lo
       IN wordDecimal(Word(w.hi \div 10, t \div 10))
            \o SubSeq(Digits, (t % 10) + 1, (t % 10) + 1)


(***************************************************************************)
(* The client-id module (home.spec.ts 148-242).                            *)
(***************************************************************************)
HashSeed == 5381

\* hash = (hash * 33) ^ str.charCodeAt(i) (156), the product taken modulo 2^32
HashStep(h, ch) ==
  Word((h.hi * 33 + (h.lo * 33) \div Half) % Half,
       BitXor((h.lo * 33) % Half, charCode(ch)))

\* the loop of lines 155-157 from index i on, `hash` holding the value h.
\* The test of h.lo never fails; it makes the accumulated value be computed
\* at each iteration rather than as one nested expression at the end
RECURSIVE HashLoop(_, _, _)
HashLoop(h, str, i) ==
  IF h.lo < 0 \/ i >= Len(str) THEN h
  ELSE HashLoop(HashStep(h, SubSeq(str, i + 1, i + 1)), str, i + 1)

\* hashString (153-159): the result is hash >>> 0, the unsigned 32-bit value
hashString(str) == HashLoop(Word(0, HashSeed), str, 0)

\* components.join(sep)
RECURSIVE join(_, _)
join(parts, sep) ==
  IF parts = << >> THEN ""
  ELSE IF Len(parts) = 1 THEN parts[1]
  ELSE parts[1] \o sep \o join(Tail(parts), sep)

\* a device: the characteristics lines 172-187 read.  A number that the
\* source replaces when falsy (devicePixelRatio, hardwareConcurrency,
\* deviceMemory) is 0 when the browser does not provide it; languages is a
\* sequence, or Undefined
Device(w, h, depth, ratio, tz, lang, langs, platform, cores, memory) ==
  [width |-> w, height |-> h, colorDepth |-> depth, pixelDepth |-> depth,
   devicePixelRatio |-> ratio, timeZone |-> tz, language |-> lang,
   languages |-> langs, platform |-> platform,
   hardwareConcurrency |-> cores, deviceMemory |-> memory]

Devices ==
  { Device(1920, 1080, 24, 2, "America/New_York", "en-US",
           <<"en-US", "en">>, "MacIntel", 8, 8),
    Device(390, 844, 32, 3, "Asia/Kolkata", "hi-IN",
           <<"hi-IN", "en-IN", "en">>, "iPhone", 0, 0),
    Device(800, 600, 24, 0, Undefined, Undefined, Undefined, Undefined, 0, 0) }

\* the components array (169-187)
Components(d) ==
  << toDecimal(d.width) \o "x" \o toDecimal(d.height),
     toDecimal(d.colorDepth),
     toDecimal(d.pixelDepth),
     toDecimal(IF d.devicePixelRatio # 0 THEN d.devicePixelRatio ELSE 1),
     OrElse(d.timeZone, ""),
     OrElse(d.language, ""),
     IF d.languages = Undefined THEN "" ELSE join(d.languages, ","),
     OrElse(d.platform, ""),
     toDecimal(d.hardwareConcurrency),
     toDecimal(d.deviceMemory) >>

\* hash.toString(16).padStart(8, "0") (195-198)
Hex8(w) == padStart(toString16(w), 8, "0")

\* the template literal of line 200
FormatId(hex1, hex2, hex3, hex4) ==
  hex1 \o "-" \o slice(hex2, 0, 4) \o "-4" \o slice(hex2, 5, 8)
       \o "-" \o slice(hex3, 0, 4) \o "-" \o sliceFrom(hex3, 4) \o slice(hex4, 0, 4)

\* generateDeviceFingerprint (166-201); win: typeof window !== "undefined"
generateDeviceFingerprint(win, d) ==
  IF ~win THEN ""
  ELSE LET fingerprint == join(Components(d), "|")
           hash1 == hashString(fingerprint)
           hash2 == hashString(reverse(fingerprint))
           hash3 == hashString(wordDecimal(hash1) \o wordDecimal(hash2))
           hash4 == hashString(fingerprint \o "salt")
       IN FormatId(Hex8(hash1), Hex8(hash2), Hex8(hash3), Hex8(hash4))

\* the fingerprint of each device in a browser, computed once
FingerprintOf == [d \in Devices |-> generateDeviceFingerprint(TRUE, d)]
Fingerprint(win, d) == IF win THEN FingerprintOf[d] ELSE ""

\* a variant of getClientId that derives the identity anew without reading
\* the cache
getClientIdFresh(win, d, store) ==
  [ret |-> Fingerprint(win, d), store |-> store]

\* getClientId (207-218): the value returned and the storage afterwards
getClientId(win, d, store) ==
  IF ~win THEN [ret |-> "", store |-> store]
  ELSE IF Truthy(store[CLIENT_ID_KEY])
    THEN [ret |-> store[CLIENT_ID_KEY], store |-> store]
    ELSE [ret |-> Fingerprint(win, d),
          store |-> IF Truthy(Fingerprint(win, d))
                      THEN [store EXCEPT ![CLIENT_ID_KEY] = Fingerprint(win, d)]
                      ELSE store]

\* a variant of setClientId that keeps a value already cached
setClientIdIfAbsent(win, store, clientId) ==
  IF ~win \/ Truthy(store[CLIENT_ID_KEY]) THEN store
  ELSE [store EXCEPT ![CLIENT_ID_KEY] = clientId]

\* setClientId (223-226)
setClientId(win, store, clientId) ==
  IF ~win THEN store ELSE [store EXCEPT ![CLIENT_ID_KEY] = clientId]

\* a variant of clearClientId that leaves the cache as it is
clearClientIdKeeps(win, store) == store

\* clearClientId (231-234)
clearClientId(win, store) ==
  IF ~win THEN store ELSE [store EXCEPT ![CLIENT_ID_KEY] = Null]

\* regenerateClientId (239-242)
regenerateClientId(win, d, store) == getClientId(win, d, clearClientId(win, store))


(***************************************************************************)
(* lib/settings.ts and the request headers of lib/api.ts.                  *)
(***************************************************************************)
\* getOpenAIApiKey (settings.ts 12-15)
getOpenAIApiKey(win, store) ==
  IF ~win THEN Null ELSE store[OPENAI_API_KEY_STORAGE_KEY]

\* setOpenAIApiKey (settings.ts 21-28)
setOpenAIApiKey(win, store, apiKey) ==
  IF ~win THEN store
  ELSE IF Truthy(apiKey)
    THEN [store EXCEPT ![OPENAI_API_KEY_STORAGE_KEY] = apiKey]
    ELSE [store EXCEPT ![OPENAI_API_KEY_STORAGE_KEY] = Null]

\* the values NEXT_PUBLIC_API_URL may have at build time
ApiUrlEnv ==
  { Undefined,
    "https://api.example.com",
    "http://api.example.com",
    "http://127.0.0.1:8000",
    "http://localhost.example.com" }

\* API_BASE_URL (api.ts 11)
API_BASE_URL(env) == OrElse(env, "http://localhost:8000")

\* isSecureUrl (api.ts 16-18)
isSecureUrl(url) ==
  startsWith(url, "https://") \/ includes(url, "localhost")
    \/ includes(url, "127.0.0.1")

\* the two headers the source sets conditionally (api.ts 29-34, 84-89);
\* Undefined for a header that is not set
Headers(clientId, openaiApiKey, url) ==
  [h \in {"X-Client-ID", "X-OpenAI-API-Key"} |->
     IF h = "X-Client-ID"
       THEN (IF Truthy(clientId) THEN clientId ELSE Undefined)
       ELSE (IF Truthy(openaiApiKey) /\ isSecureUrl(url)
               THEN openaiApiKey ELSE Undefined)]

Request(via, url, headers) == [via |-> via, url |-> url, headers |-> headers]

(***************************************************************************)
(* The client as a state machine: the callers of the client-id module and  *)
(* of lib/settings.ts, and requests whose responses arrive in any order.   *)
(***************************************************************************)
MaxRequests == 2
Requests == 1..MaxRequests

\* what a caller may hand to setClientId, to setOpenAIApiKey, and what the
\* X-Client-ID header of a response may hold (null when it is absent)
CallerIds == {"", "X"}
CallerKeys == {Null, "", "sk-user-key"}
ResponseIds == {Null, "", "srv-1", "srv-2"}

\* the paths fetchWithClientId is called with (api.ts 167, 181-183)
Paths == {"/api/v1/conversations?limit=50&offset=0", "/api/v1/conversations/conv-1"}

\* history: a call of the client-id module after the call in lastCall
Called(op, arg, ret) ==
  << [op |-> op, arg |-> arg, ret |-> ret,
      prevOp |-> IF lastCall = << >> THEN "none" ELSE lastCall[1].op,
      prevArg |-> IF lastCall = << >> THEN Undefined ELSE lastCall[1].arg] >>

\* getClientId finds no usable value in the cache
CacheMiss(win, store) == win /\ ~Truthy(store[CLIENT_ID_KEY])

\* the controller at rest
ControllerUnused ==
  /\ isStreaming = FALSE
  /\ streamedContent = ""
  /\ currentSqlQuery = Null
  /\ currentStage = Null
  /\ error = Null
  /\ abortControllerRef = NoController
  /\ aborted = [c \in Calls |-> FALSE]
  /\ pc = [c \in Calls |-> "idle"]
  /\ reader = [c \in Calls |-> "none"]
  /\ result = [c \in Calls |-> << >>]
  /\ retval = [c \in Calls |-> << >>]
  /\ log = [c \in Calls |-> << >>]
  /\ processed = [c \in Calls |-> << >>]
  /\ nevents = 0
  /\ abortedIn = [c \in Calls |-> "none"]

ClientInit ==
  /\ ControllerUnused /\ DecoderUnused /\ ReconcilerUnused
  /\ hasWindow \in BOOLEAN
  /\ device \in Devices
  /\ localStorage = EmptyStorage
  /\ \E env \in ApiUrlEnv : apiBaseUrl = API_BASE_URL(env)
  /\ requests = [r \in Requests |-> "free"]
  /\ wire = << >>
  /\ lastCall = << >>
  /\ derived = <<Null, Null>>
  /\ issued = Null

ClientFrame ==
  UNCHANGED <<hasWindow, device, apiBaseUrl,
              hookVars, callVars, abortVars, nevents, decoderVars, reconcilerVars>>

\* a caller calls getClientId()
CallGetClientId ==
  /\ localStorage' = getClientId(hasWindow, device, localStorage).store
  /\ lastCall' = Called("getClientId", Undefined,
                        getClientId(hasWindow, device, localStorage).ret)
  /\ derived' = IF CacheMiss(hasWindow, localStorage)
                  THEN <<derived[2], getClientId(hasWindow, device, localStorage).ret>>
                  ELSE derived
  /\ UNCHANGED <<requests, wire, issued>>
  /\ ClientFrame

\* a caller calls setClientId(x)
CallSetClientId(x) ==
  /\ localStorage' = setClientId(hasWindow, localStorage, x)
  /\ lastCall' = Called("setClientId", x, Undefined)
  /\ issued' = IF hasWindow THEN Null ELSE issued
  /\ UNCHANGED <<requests, wire, derived>>
  /\ ClientFrame

\* a caller calls clearClientId()
CallClearClientId ==
  /\ localStorage' = clearClientId(hasWindow, localStorage)
  /\ lastCall' = Called("clearClientId", Undefined, Undefined)
  /\ issued' = IF hasWindow THEN Null ELSE issued
  /\ UNCHANGED <<requests, wire, derived>>
  /\ ClientFrame

\* a caller calls regenerateClientId(): clearClientId(), then getClientId()
CallRegenerateClientId ==
  /\ localStorage' = regenerateClientId(hasWindow, device, localStorage).store
  /\ lastCall' =
       << [op |-> "getClientId", arg |-> Undefined,
           ret |-> regenerateClientId(hasWindow, device, localStorage).ret,
           prevOp |-> "clearClientId", prevArg |-> Undefined] >>
  /\ derived' = IF hasWindow
                  THEN <<derived[2],
                         regenerateClientId(hasWindow, device, localStorage).ret>>
                  ELSE derived
  /\ issued' = IF hasWindow THEN Null ELSE issued
  /\ UNCHANGED <<requests, wire>>
  /\ ClientFrame

\* the settings dialog saves or clears the key (settings.ts 21-28)
CallSetOpenAIApiKey(k) ==
  /\ localStorage' = setOpenAIApiKey(hasWindow, localStorage, k)
  /\ UNCHANGED <<requests, wire, lastCall, derived, issued>>
  /\ ClientFrame

\* the code up to `await fetch` (api.ts 24-36 and 78-100): getClientId(),
\* getOpenAIApiKey(), the headers, fetch
SendRequest(r, via, url) ==
  /\ requests[r] = "free"
  /\ \A q \in Requests : q < r => requests[q] # "free"
  /\ requests' = [requests EXCEPT ![r] = "sent"]
  /\ localStorage' = getClientId(hasWindow, device, localStorage).store
  /\ wire' = << Request(via, url,
                        Headers(getClientId(hasWindow, device, localStorage).ret,
                                getOpenAIApiKey(hasWindow, localStorage),
                                url)) >>
  /\ lastCall' = Called("getClientId", Undefined,
                        getClientId(hasWindow, device, localStorage).ret)
  /\ derived' = IF CacheMiss(hasWindow, localStorage)
                  THEN <<derived[2], getClientId(hasWindow, device, localStorage).ret>>
                  ELSE derived
  /\ UNCHANGED issued
  /\ ClientFrame

\* fetchWithClientId(url) up to `await fetch` (api.ts 23-36)
fetchWithClientId(r, path) ==
  SendRequest(r, "fetchWithClientId", apiBaseUrl \o path)

\* streamQuery up to `await fetch` (api.ts 78-100)
streamQueryFetch(r) ==
  SendRequest(r, "streamQuery", apiBaseUrl \o "/api/v1/query/stream")

\* fetch resolved: the response's X-Client-ID header is stored when it is
\* truthy (api.ts 38-42, 102-106)
ResponseArrives(r, newClientId) ==
  /\ requests[r] = "sent"
  /\ requests' = [requests EXCEPT ![r] = "done"]
  /\ IF Truthy(newClientId)
       THEN /\ localStorage' = setClientId(hasWindow, localStorage, newClientId)
            /\ lastCall' = Called("setClientId", newClientId, Undefined)
            /\ issued' = IF hasWindow THEN newClientId ELSE issued
       ELSE UNCHANGED <<localStorage, lastCall, issued>>
  /\ UNCHANGED <<wire, derived>>
  /\ ClientFrame

\* fetch rejected: nothing after the await runs
FetchRejects(r) ==
  /\ requests[r] = "sent"
  /\ requests' = [requests EXCEPT ![r] = "done"]
  /\ UNCHANGED <<localStorage, wire, lastCall, derived, issued>>
  /\ ClientFrame

\* what fetch may resolve checkHealth's request to: response.ok and the
\* response's X-Client-ID header; << >> when fetch rejects
HealthAnswers ==
  {<< >>} \cup {<<[ok |-> ok, clientId |-> id]>> : ok \in BOOLEAN, id \in {Null, "srv-1"}}

\* the value checkHealth resolves to (api.ts 214-219)
HealthResult(answer) == IF answer = << >> THEN FALSE ELSE answer[1].ok

\* checkHealth() (api.ts 213-220): a bare fetch of /health, without
\* getClientId(), without headers; nothing of the answer is stored
checkHealth(answer) ==
  /\ wire' = << Request("checkHealth", apiBaseUrl \o "/health",
                        [h \in {"X-Client-ID", "X-OpenAI-API-Key"} |-> Undefined]) >>
  /\ HealthResult(answer) \in BOOLEAN
  /\ UNCHANGED <<requests, localStorage, lastCall, derived, issued>>
  /\ ClientFrame

ClientNext ==
  \/ \E answer \in HealthAnswers : checkHealth(answer)
  \/ CallGetClientId
  \/ \E x \in CallerIds : CallSetClientId(x)
  \/ CallClearClientId
  \/ CallRegenerateClientId
  \/ \E k \in CallerKeys : CallSetOpenAIApiKey(k)
  \/ \E r \in Requests : \E path \in Paths : fetchWithClientId(r, path)
  \/ \E r \in Requests : streamQueryFetch(r)
  \/ \E r \in Requests : \E id \in ResponseIds : ResponseArrives(r, id)
  \/ \E r \in Requests : FetchRejects(r)

ClientSpec == ClientInit /\ [][ClientNext]_vars


(***************************************************************************)
(* Vocabulary of the client properties: the parts of a URL.                *)
(***************************************************************************)
\* the positions (from 0) at or after `from` where p occurs in s
Occurrences(s, p, from) ==
  {i \in from..(Len(s) - Len(p)) : SubSeq(s, i + 1, i + Len(p)) = p}

Least(S) == CHOOSE i \in S : \A j \in S : i <= j

\* the scheme of an absolute URL, and its authority (host and port)
UrlScheme(url) == slice(url, 0, Least(Occurrences(url, "://", 0)))
UrlAuthority(url) ==
  LET start == Least(Occurrences(url, "://", 0)) + 3
      stops == Occurrences(url, "/", start) \cup Occurrences(url, "?", start)
                 \cup Occurrences(url, "#", start)
  IN slice(url, start, IF stops = {} THEN Len(url) ELSE Least(stops))

\* the host: the authority without its port
UrlHost(url) ==
  LET colons == Occurrences(UrlAuthority(url), ":", 0)
  IN IF colons = {} THEN UrlAuthority(url)
     ELSE slice(UrlAuthority(url), 0, Least(colons))

\* a loopback address: the name localhost or an address of 127.0.0.0/8
IsLoopbackHost(host) == host = "localhost" \/ startsWith(host, "127.")

SecureDestination(url) ==
  UrlScheme(url) = "https" \/ IsLoopbackHost(UrlHost(url))

\* the request last handed to fetch carries the credential
CredentialOnWire ==
  wire # << >> /\ wire[1].headers["X-OpenAI-API-Key"] # Undefined

(***************************************************************************)
(* C11: the stored credential (X-OpenAI-API-Key) is attached to a request  *)
(* only if the destination is secure, that is, its scheme is HTTPS or its  *)
(* host is a loopback address; it is never attached to a request sent over *)
(* plain HTTP to a host that is not loopback.                              *)
(***************************************************************************)
C11_CredentialOnlyToSecure ==
  CredentialOnWire => SecureDestination(wire[1].url)


(***************************************************************************)
(* Vocabulary of the identity properties.                                  *)
(***************************************************************************)
\* the last client-id call was getClientId() right after a call of `op`
GetAfter(op) ==
  /\ lastCall # << >>
  /\ lastCall[1].op = "getClientId"
  /\ lastCall[1].prevOp = op

\* s is made of hexadecimal digits only
IsHex(s) ==
  \A i \in 1..Len(s) : \E k \in 1..Len(Digits) : SubSeq(s, i, i) = SubSeq(Digits, k, k)

\* the groups of s between hyphens, in order
RECURSIVE Groups(_)
Groups(s) ==
  IF Occurrences(s, "-", 0) = {} THEN <<s>>
  ELSE <<slice(s, 0, Least(Occurrences(s, "-", 0)))>>
         \o Groups(sliceFrom(s, Least(Occurrences(s, "-", 0)) + 1))

\* five hexadecimal groups of lengths 8, 4, 4, 4 and 12, the third one
\* beginning with 4
UuidShaped(s) ==
  /\ Len(Groups(s)) = 5
  /\ \A i \in 1..5 : IsHex(Groups(s)[i])
  /\ [i \in 1..5 |-> Len(Groups(s)[i])] = <<8, 4, 4, 4, 12>>
  /\ startsWith(Groups(s)[3], "4")

(***************************************************************************)
(* C16 as stated: for every identity string X and every prior cache state, *)
(* setIdentity(X) immediately followed by getIdentity() returns X (in a    *)
(* browser, where there is a cache).                                       *)
(***************************************************************************)
C16_SetThenGetAnyString ==
  hasWindow /\ GetAfter("setClientId") => lastCall[1].ret = lastCall[1].prevArg

(***************************************************************************)
(* C16 amended: for every non-empty identity string X and every prior      *)
(* cache state, setClientId(X) immediately followed by getClientId()       *)
(* returns X and leaves X in the cache.  (For the empty string             *)
(* getClientId treats the cache as missing and returns the device          *)
(* fingerprint.)                                                           *)
(***************************************************************************)
C16_SetThenGet ==
  hasWindow /\ GetAfter("setClientId") /\ Truthy(lastCall[1].prevArg)
    => /\ lastCall[1].ret = lastCall[1].prevArg
       /\ localStorage[CLIENT_ID_KEY] = lastCall[1].prevArg

\* getClientId() has returned "X" right after setClientId("X"), the cache
\* having held a fingerprint-derived value before
C16_Witness ==
  /\ hasWindow
  /\ GetAfter("setClientId")
  /\ lastCall[1].prevArg = "X"
  /\ lastCall[1].ret = "X"
  /\ derived[2] = FingerprintOf[device]

(***************************************************************************)
(* C17: once a response carrying a server-issued identity X has been       *)
(* processed, the cache holds X, every later getClientId() returns X and   *)
(* every later request carries X, until a later setClientId or             *)
(* clearClientId by the caller or a later response carrying an identity;   *)
(* no getClientId call (whose fallback is the device fingerprint) replaces *)
(* it, however requests, responses and getClientId calls interleave.       *)
(***************************************************************************)
C17_ServerIdentityKept ==
  [][ /\ issued' # Null =>
           /\ localStorage'[CLIENT_ID_KEY] = issued'
           /\ lastCall'[1].op = "getClientId" => lastCall'[1].ret = issued'
      /\ \A r \in Requests :
           issued # Null /\ requests[r] = "free" /\ requests'[r] = "sent"
             => wire'[1].headers["X-Client-ID"] = issued ]_vars

\* the response to the first request issued "srv-1" after the fingerprint
\* had been cached; the second request, sent while the first response was
\* being awaited or after it, carries "srv-1"
C17_Witness ==
  /\ issued = "srv-1"
  /\ derived[2] = FingerprintOf[device]
  /\ requests = <<"done", "sent">>
  /\ lastCall[1].op = "getClientId"
  /\ lastCall[1].ret = "srv-1"
  /\ wire[1].headers["X-Client-ID"] = "srv-1"

(***************************************************************************)
(* C18: on a cache miss getIdentity returns, for every device fingerprint, *)
(* a string of five hyphen-separated hexadecimal groups of lengths 8, 4,   *)
(* 4, 4 and 12 whose third group begins with the digit 4.                  *)
(***************************************************************************)
C18_UuidShapedIdentity ==
  hasWindow /\ derived[2] # Null => UuidShaped(derived[2])

(***************************************************************************)
(* C19: with unchanged device characteristics, clearIdentity();            *)
(* a = getIdentity(); clearIdentity(); b = getIdentity() gives a = b for   *)
(* every prior cache state; a is the fingerprint-derived identity and is   *)
(* written back to the cache.  (derived holds the values the last two      *)
(* cache misses returned.)                                                 *)
(***************************************************************************)
C19_ClearThenGetIsFingerprint ==
  hasWindow /\ GetAfter("clearClientId")
    => /\ lastCall[1].ret = Fingerprint(hasWindow, device)
       /\ localStorage[CLIENT_ID_KEY] = lastCall[1].ret
       /\ derived[2] = lastCall[1].ret
       /\ derived[1] # Null => derived[1] = derived[2]

\* the second getClientId() after a clearClientId(), the cache having held
\* a server-issued identity in between
C19_Witness ==
  /\ hasWindow
  /\ GetAfter("clearClientId")
  /\ derived[1] # Null
  /\ derived[1] = lastCall[1].ret
  /\ requests[1] = "done"
  /\ localStorage[CLIENT_ID_KEY] = FingerprintOf[device]


(***************************************************************************)
(* The frame decoder of streamQuery (api.ts 118-152).                      *)
(*                                                                         *)
(* The response body is text: chunks are what decoder.decode(value,        *)
(* {stream: true}) returns, which for the ASCII text used here is the      *)
(* text of the bytes read.                                                 *)
(***************************************************************************)
MaxFrames == 2
MaxChunk == 3

\* the JSON texts a server may put in a payload line, with the value
\* JSON.parse gives for each
JsonToken == "{\"type\":\"token\",\"content\":\"Hi\"}"
JsonDone == "{\"type\":\"done\"}"
JsonTruncated == "{\"type\":\"token\""
JsonValue ==
  [t \in {JsonToken, JsonDone} |->
     IF t = JsonToken THEN TokenEvent("Hi")
     ELSE [BlankEvent EXCEPT !.type = "done"]]

\* JSON.parse(text): <<value>>, or << >> when it throws a SyntaxError.
\* White space around the value is allowed; of the texts that reach it here
\* only the two of JsonValue are JSON
JSONParse(text) ==
  IF trim(text) \in DOMAIN JsonValue THEN << JsonValue[trim(text)] >> ELSE << >>

\* a line of a frame: a marker and the text after it
Line(marker, text) == [marker |-> marker, text |-> text]
DataMarker == "data: "

\* the frames a server may send: one payload line, a payload line whose
\* JSON is cut short, a frame with an event field before the payload, a
\* frame of two payload lines, a comment
FrameKinds ==
  { << Line(DataMarker, JsonToken) >>,
    << Line(DataMarker, JsonDone) >>,
    << Line(DataMarker, JsonTruncated) >>,
    << Line("event: ", "message"), Line(DataMarker, JsonToken) >>,
    << Line(DataMarker, JsonToken), Line(DataMarker, JsonDone) >>,
    << Line(": ", "keep-alive") >> }

\* a frame as sent: its lines and what ends it ("\n\n", or nothing for a
\* last frame the server did not terminate)
Frame(lines, end) == [lines |-> lines, end |-> end]

RECURSIVE FrameSeqs(_)
FrameSeqs(n) ==
  IF n = 0 THEN { << >> }
  ELSE FrameSeqs(n - 1)
         \cup { Append(fs, Frame(k, "\n\n")) :
                  fs \in {x \in FrameSeqs(n - 1) : Len(x) = n - 1}, k \in FrameKinds }

\* the text of a frame and of the whole response body
FrameText(f) ==
  join([i \in 1..Len(f.lines) |-> f.lines[i].marker \o f.lines[i].text], "\n")
    \o f.end
Source(fs) == join([i \in 1..Len(fs) |-> FrameText(fs[i])], "")

\* buffer.split("\n\n")
RECURSIVE split(_)
split(s) ==
  IF Occurrences(s, "\n\n", 0) = {} THEN << s >>
  ELSE << slice(s, 0, Least(Occurrences(s, "\n\n", 0))) >>
         \o split(sliceFrom(s, Least(Occurrences(s, "\n\n", 0)) + 2))

\* a variant of Residual that drops the text after the last separator
ResidualDropped(lines) == ""

\* buffer = lines.pop() || "" (134)
Residual(lines) == OrElse(lines[Len(lines)], "")

\* what one element of `lines` yields (137-144): the parsed payload when
\* the element starts with the marker and JSON.parse does not throw
YieldOf(line) ==
  IF startsWith(line, DataMarker) THEN JSONParse(sliceFrom(line, 6)) ELSE << >>

\* the for-loop over `lines` (136-146) run to its end: the values yielded,
\* in order
RECURSIVE YieldAll(_)
YieldAll(lines) ==
  IF lines = << >> THEN << >> ELSE YieldOf(lines[1]) \o YieldAll(Tail(lines))

\* one iteration of the while-loop on a chunk (130-146), run without a stop
\* at its yields
DecodeChunk(buf, chunk) ==
  [buffer |-> Residual(split(buf \o chunk)),
   yields |-> YieldAll(SubSeq(split(buf \o chunk), 1, Len(split(buf \o chunk)) - 1))]

\* a variant of NextYield for which a payload that does not parse ends the
\* loop over the lines
NextYieldUntilInvalid(ls) ==
  IF \E k \in 1..Len(ls) :
       /\ YieldOf(ls[k]) # << >>
       /\ \A j \in 1..(k - 1) : ~startsWith(ls[j], DataMarker)
    THEN Least({k \in 1..Len(ls) : YieldOf(ls[k]) # << >>})
    ELSE 0

\* the for-loop (136-146) run over ls up to its next `yield data`: the
\* position of the first element that yields, 0 when none does
NextYield(ls) ==
  IF \E k \in 1..Len(ls) : YieldOf(ls[k]) # << >>
    THEN Least({k \in 1..Len(ls) : YieldOf(ls[k]) # << >>})
    ELSE 0

\* the generator runs the for-loop over ls: it is suspended at the first
\* yield, the consumer holding the value, with the elements after it still
\* to examine; when nothing yields it goes on to the next reader.read()
ForLoop(ls) ==
  IF NextYield(ls) = 0
    THEN /\ generator' = "read"
         /\ remaining' = << >>
         /\ UNCHANGED yielded
    ELSE /\ generator' = "yield"
         /\ remaining' = SubSeq(ls, NextYield(ls) + 1, Len(ls))
         /\ yielded' = yielded \o YieldOf(ls[NextYield(ls)])

DecoderInit ==
  /\ ControllerUnused /\ ClientUnused /\ ReconcilerUnused
  /\ \E fs \in FrameSeqs(MaxFrames) :
       \/ frames = fs
       \/ fs # << >> /\ frames = [fs EXCEPT ![Len(fs)].end = ""]
  /\ delivered = 0
  /\ buffer = ""
  /\ yielded = << >>
  /\ generator = "read"
  /\ remaining = << >>
  /\ cuts = {}

DecoderFrame ==
  UNCHANGED <<frames, hookVars, callVars, abortVars, nevents, clientVars,
              reconcilerVars>>

\* where in the body the boundary after `pos` characters falls
CutKind(text, pos) ==
  IF pos = 0 \/ pos >= Len(text) THEN {}
  ELSE IF slice(text, pos - 1, pos + 1) = "\n\n" THEN {"separator"}
  ELSE {"frame"}

\* reader.read() resolves with the next n characters of the body: the
\* buffer is split and replaced (131-135) and the for-loop starts
ReadChunk(n) ==
  /\ generator = "read"
  /\ delivered + n <= Len(Source(frames))
  /\ delivered' = delivered + n
  /\ buffer' = Residual(split(buffer \o slice(Source(frames), delivered, delivered + n)))
  /\ ForLoop(SubSeq(split(buffer \o slice(Source(frames), delivered, delivered + n)),
                    1, Len(split(buffer \o slice(Source(frames), delivered, delivered + n))) - 1))
  /\ cuts' = cuts \cup CutKind(Source(frames), delivered + n)
  /\ DecoderFrame

\* reader.read() resolves with all that is left of the body
ReadRest ==
  /\ Len(Source(frames)) - delivered > MaxChunk
  /\ ReadChunk(Len(Source(frames)) - delivered)

\* the consumer asks for the next value: the generator resumes after its
\* `yield data` (141) and the for-loop goes on
GeneratorNext ==
  /\ generator = "yield"
  /\ ForLoop(remaining)
  /\ UNCHANGED <<delivered, buffer, cuts>>
  /\ DecoderFrame

\* the consumer leaves its loop at a value (break, or a throw in the loop
\* body): the generator is closed at its yield, its finally block runs
\* (148-152) and the elements left are never examined
GeneratorReturn ==
  /\ generator = "yield"
  /\ generator' = "closed"
  /\ UNCHANGED <<delivered, buffer, yielded, remaining, cuts>>
  /\ DecoderFrame

\* a variant of ReadEnd that parses what is left in the buffer
ReadEndFlush ==
  /\ generator = "read"
  /\ delivered = Len(Source(frames))
  /\ generator' = "end"
  /\ yielded' = yielded \o YieldOf(buffer)
  /\ UNCHANGED <<delivered, buffer, remaining, cuts>>
  /\ DecoderFrame

\* reader.read() resolves with done: break (129)
ReadEnd ==
  /\ generator = "read"
  /\ delivered = Len(Source(frames))
  /\ generator' = "end"
  /\ UNCHANGED <<delivered, buffer, yielded, remaining, cuts>>
  /\ DecoderFrame

DecoderNext ==
  \/ \E n \in 1..MaxChunk : ReadChunk(n)
  \/ ReadRest
  \/ GeneratorNext
  \/ GeneratorReturn
  \/ ReadEnd

DecoderSpec == DecoderInit /\ [][DecoderNext]_vars


(***************************************************************************)
(* Vocabulary of the decoder properties: what the server framed.           *)
(***************************************************************************)
\* the frames of the body that are closed by a blank line
Terminated(fs) == SelectSeq(fs, LAMBDA f : f.end = "\n\n")

\* a frame of exactly one payload line
IsPayloadFrame(f) == Len(f.lines) = 1 /\ f.lines[1].marker = DataMarker

\* the events of the marked lines of a frame whose payload is JSON, in order
RECURSIVE PayloadEvents(_)
PayloadEvents(lines) ==
  IF lines = << >> THEN << >>
  ELSE (IF lines[1].marker = DataMarker /\ lines[1].text \in DOMAIN JsonValue
          THEN << JsonValue[lines[1].text] >> ELSE << >>)
         \o PayloadEvents(Tail(lines))

RECURSIVE FramedEvents(_)
FramedEvents(fs) ==
  IF fs = << >> THEN << >>
  ELSE PayloadEvents(fs[1].lines) \o FramedEvents(Tail(fs))

\* C12: however the body is cut into chunks (inside a frame, or between the
\* two newlines of a separator), the events yielded so far, followed by
\* those of the elements the for-loop has still to examine, are those the
\* decoder yields when the text delivered so far arrives as one chunk; at
\* the end of the body they are those of the whole body in one chunk.
C12_ChunkBoundaryIndependence ==
  yielded \o YieldAll(remaining)
    = DecodeChunk("", slice(Source(frames), 0, delivered)).yields

\* a body of two yielding frames was read to its end with one chunk boundary
\* inside a frame and one between the newlines of a separator
C12_Witness ==
  /\ generator = "end"
  /\ cuts = {"frame", "separator"}
  /\ Len(yielded) = 2

\* C13: in a body of one-line payload frames, a frame whose payload is not
\* JSON yields nothing and the decoder goes on: what was yielded at the end
\* of the body is the event of every closed frame with a JSON payload, in
\* the order of the frames.
C13_InvalidPayloadSkipped ==
  (generator = "end" /\ \A i \in 1..Len(frames) : IsPayloadFrame(frames[i]))
    => yielded = FramedEvents(Terminated(frames))

\* a body whose first frame has a truncated payload and whose second frame
\* is valid was read to its end, and the second frame was yielded
C13_Witness ==
  /\ generator = "end"
  /\ Len(frames) = 2
  /\ frames[1] = Frame(<< Line(DataMarker, JsonTruncated) >>, "\n\n")
  /\ IsPayloadFrame(frames[2])
  /\ Len(yielded) = 1

\* C14: every line of a closed frame that begins with "data: " has its JSON
\* payload decoded into an event, whatever the other lines of the frame are.
C14_EveryMarkedLineDecoded ==
  generator = "end" => yielded = FramedEvents(Terminated(frames))


(***************************************************************************)
(* Vocabulary of the ordering property: which invocation answers an event. *)
(***************************************************************************)
\* the invocations of call c that answer events: all of them, but the one
\* the catch block made
EventLog(c) ==
  IF pc[c] = "caught" THEN SubSeq(log[c], 1, Len(log[c]) - 1) ELSE log[c]

\* the event carries what its observer is given
Carries(e) ==
  CASE e.type = "stage" -> Truthy(e.label)
    [] e.type = "token" -> Truthy(e.content)
    [] e.type = "sql" -> Truthy(e.query)
    [] OTHER -> e.type \in {"done", "error"}

\* invocation x is the one event e asks for
Answers(x, e) ==
  CASE e.type = "stage" -> x.cb = "onStage" /\ x.b = e.label
    [] e.type = "token" -> x.cb = "onToken" /\ x.a = e.content
    [] e.type = "sql" -> x.cb = "onSql" /\ x.a = e.query
    [] e.type = "done" -> x.cb = "onComplete" /\ Len(x.res) = 1
    [] e.type = "error" -> x.cb = "onError" /\ x.b = e.code
    [] OTHER -> FALSE

\* C15 as stated: within one executeQuery call the observer invocations
\* follow the events that reached the loop body one for one: the i-th
\* invocation answers the i-th event, for every event.
C15_OneInvocationPerEvent ==
  \A c \in Calls :
    /\ Len(EventLog(c)) = Len(processed[c])
    /\ \A i \in 1..Len(processed[c]) : Answers(EventLog(c)[i], processed[c][i])

\* C15, amended: within one executeQuery call the observer invocations
\* follow, one for one and in the order of the stream, the events that
\* carry their payload (a stage with a label, a token with content, a sql
\* event with a query, any done or error event); an event without it causes
\* no invocation; invocations are never reordered or merged.
C15_InvocationsFollowEvents ==
  \A c \in Calls :
    /\ Len(EventLog(c)) = Len(SelectSeq(processed[c], Carries))
    /\ \A i \in 1..Len(EventLog(c)) :
         Answers(EventLog(c)[i], SelectSeq(processed[c], Carries)[i])

\* a call has processed two events of different kinds that carry their
\* payload and has invoked two observers
C15_Witness ==
  \E c \in Calls :
    /\ Len(processed[c]) = 2
    /\ Carries(processed[c][1]) /\ Carries(processed[c][2])
    /\ processed[c][1].type # processed[c][2].type
    /\ Len(EventLog(c)) = 2


(***************************************************************************)
(* useConversation (useStreamingQuery.ts 176-289): the functions the hook   *)
(* returns, with the loop that turns the persisted records of a            *)
(* conversation into the messages shown.                                   *)
(***************************************************************************)
\* number of records of a conversation
MaxHistory == 4
\* length of the message list up to which addMessage is followed
MaxMessages == 3
\* number of refreshConversations calls in flight up to which a caller
\* starts another one
MaxRefreshes == 1
Selects == {1, 2}
ConversationIds == {"conv-A", "conv-B"}

\* an ApiMessage (ui/types/index.ts 18-23) without its id.  tool_calls is
\* the list of the calls, each kept as its args.query (Undefined when the
\* call has none); a null tool_calls and an empty one, which the code does
\* not tell apart (217), are both << >>
Record(role, content, tool_calls) ==
  [role |-> role, content |-> content, tool_calls |-> tool_calls]

\* the records a conversation may hold
RecordKinds ==
  { Record("user", "Q1", << >>),
    Record("assistant", "Answer", << >>),
    Record("assistant", "", << "SELECT 1" >>),
    Record("assistant", "", << "SELECT 2" >>),
    Record("assistant", "Answer", << "SELECT 2" >>),
    Record("assistant", "", << "SELECT 1", "SELECT 2" >>),
    Record("assistant", " \n", << Undefined >>),
    Record("tool", "rows", << >>) }

RECURSIVE KindSeqs(_)
KindSeqs(n) ==
  IF n = 0 THEN { << >> }
  ELSE KindSeqs(n - 1)
         \cup { Append(ks, k) :
                  ks \in {x \in KindSeqs(n - 1) : Len(x) = n - 1}, k \in RecordKinds }

\* detail.messages: the records with their ids, in the order persisted
History(ks) ==
  [i \in 1..Len(ks) |->
     [id |-> "m" \o toDecimal(i), role |-> ks[i].role, content |-> ks[i].content,
      tool_calls |-> ks[i].tool_calls]]

\* what the server holds for the second conversation
OtherHistory ==
  History(<< Record("user", "Q2", << >>), Record("assistant", "Other", << >>) >>)

\* the history of the first conversation
ExampleHistory ==
  History(<< Record("user", "Q1", << >>),
             Record("assistant", "", << "SELECT 1" >>),
             Record("assistant", "Answer", << >>) >>)

\* a Message (ui/types/index.ts 8-13)
Message(id, role, content, sql) ==
  [id |-> id, role |-> role, content |-> content, sqlQuery |-> sql]

\* m.tool_calls?.[0]?.args?.query ?? null (217)
RecordSqlQuery(m) ==
  IF m.tool_calls = << >> THEN Null
  ELSE Coalesce(m.tool_calls[1], Null)

\* a variant of Capture without the test of sqlQuery
CaptureAlways(pending, sqlQuery) == sqlQuery

\* if (sqlQuery) pendingSqlQuery = sqlQuery (218)
Capture(pending, sqlQuery) == IF Truthy(sqlQuery) THEN sqlQuery ELSE pending

\* the test of line 220, negated: the record is pushed
Emits(m) == trim(m.content) # ""

\* a variant of Artifact without the carried-forward query
ArtifactOwnOnly(role, sqlQuery, pending) ==
  IF role = "assistant" THEN sqlQuery ELSE Null

\* sqlQuery: m.role === "assistant" ? sqlQuery || pendingSqlQuery : null (226)
Artifact(role, sqlQuery, pending) ==
  IF role = "assistant" THEN OrElse(sqlQuery, pending) ELSE Null

\* a variant of AfterEmit that keeps the pending query
AfterEmitKeeps(role, pending) == pending

\* if (m.role === "assistant") pendingSqlQuery = null (229)
AfterEmit(role, pending) == IF role = "assistant" THEN Null ELSE pending

\* one iteration of the for-loop (214-230) on the locals
\* [pendingSqlQuery, transformedMessages]
LoopBody(st, m) ==
  IF m.role # "user" /\ m.role # "assistant" THEN st
  ELSE IF ~Emits(m)
    THEN [st EXCEPT !.pendingSqlQuery = Capture(@, RecordSqlQuery(m))]
    ELSE [pendingSqlQuery |->
            AfterEmit(m.role, Capture(st.pendingSqlQuery, RecordSqlQuery(m))),
          transformedMessages |->
            Append(st.transformedMessages,
                   Message(m.id, m.role, m.content,
                           Artifact(m.role, RecordSqlQuery(m),
                                    Capture(st.pendingSqlQuery, RecordSqlQuery(m)))))]

RECURSIVE Loop(_, _, _)
Loop(st, ms, i) ==
  IF i > Len(ms) THEN st ELSE Loop(LoopBody(st, ms[i]), ms, i + 1)

\* the local transformedMessages after the loop over detail.messages
\* (211-230)
transformedMessages(ms) ==
  Loop([pendingSqlQuery |-> Null, transformedMessages |-> << >>], ms, 1)
    .transformedMessages

(***************************************************************************)
(* The loop on its own: the records of detail.messages are drawn from the  *)
(* histories of up to MaxHistory records, and each step is one iteration.  *)
(***************************************************************************)
LoopInit ==
  /\ ControllerUnused /\ DecoderUnused /\ ClientUnused /\ HookUnused
  /\ \E ks \in KindSeqs(MaxHistory) : detailMessages = History(ks)
  /\ cursor = 0
  /\ locals = [pendingSqlQuery |-> Null, transformedMessages |-> << >>]

\* one iteration of `for (const m of detail.messages)` (214-230)
LoopStep ==
  /\ cursor < Len(detailMessages)
  /\ cursor' = cursor + 1
  /\ locals' = LoopBody(locals, detailMessages[cursor + 1])
  /\ UNCHANGED <<detailMessages, persisted, selectPc, selectId, currentConversationId,
                 messages, isLoading, conversationError, listVars,
                 chatVars>>
  /\ UNCHANGED <<hookVars, callVars, abortVars, nevents, decoderVars, clientVars>>

LoopNext == LoopStep

LoopSpec == LoopInit /\ [][LoopNext]_vars

(***************************************************************************)
(* The hook as a state machine: its functions are called in any order and  *)
(* the responses of the server arrive in any order.                        *)
(***************************************************************************)
\* what getConversations, getConversation and deleteConversation may fail
\* with (api.ts 36, 169-172, 185-188, 203-206)
ApiFailures ==
  { Failure("fetch rejects", 0, TextBody, NotAnError),
    Failure("status", 404, JsonBody("Conversation not found"), NotAnError) }

\* err instanceof Error ? err.message : fallback (187, 235, 254)
CaughtMessage(f, fallback) ==
  IF Thrown(f).isError THEN Thrown(f).message ELSE fallback

\* the list getConversations resolves to (response.conversations, by id)
Listings == { << "conv-A", "conv-B" >> }

\* what a caller may hand to addMessage and to updateLastMessage
AddedMessages == { Message("x1", "user", "Hi", Undefined) }
Updates == { [sqlQuery |-> "SELECT 9"] }

Last(prev) == prev[Len(prev)]
Front(prev) == SubSeq(prev, 1, Len(prev) - 1)

\* { ...last, ...update } (270)
Spread(last, update) ==
  [k \in DOMAIN last |-> IF k \in DOMAIN update THEN update[k] ELSE last[k]]

\* the state after the mount effect has called refreshConversations (191-193)
ReconcilerInit ==
  /\ ControllerUnused /\ DecoderUnused /\ ClientUnused /\ LoopUnused
  /\ persisted = [id \in ConversationIds |->
                    IF id = "conv-A" THEN ExampleHistory ELSE OtherHistory]
  /\ selectPc = [s \in Selects |-> "idle"]
  /\ selectId = [s \in Selects |-> Null]
  /\ currentConversationId = Null
  /\ messages = << >>
  /\ isLoading = FALSE
  /\ conversationError = Null
  /\ conversations = << >>
  /\ refreshing = 1
  /\ removal = << >>
  /\ submission = << >>
  /\ chatError = Null
  /\ invoked = << >>

ReconcilerFrame ==
  UNCHANGED <<persisted, hookVars, callVars, abortVars, nevents, decoderVars,
              clientVars, loopVars, chatVars>>

\* refreshConversations() up to `await getConversations()` (181-183)
refreshConversations ==
  /\ refreshing < MaxRefreshes
  /\ refreshing' = refreshing + 1
  /\ UNCHANGED <<selectPc, selectId, currentConversationId, messages,
                 isLoading, conversationError, conversations, removal>>
  /\ ReconcilerFrame

\* getConversations resolved: setConversations(response.conversations) (184)
GetConversationsOk(listing) ==
  /\ refreshing > 0
  /\ refreshing' = refreshing - 1
  /\ conversations' = listing
  /\ UNCHANGED <<selectPc, selectId, currentConversationId, messages,
                 isLoading, conversationError, removal>>
  /\ ReconcilerFrame

\* getConversations rejected: the catch block (185-188)
GetConversationsFail(f) ==
  /\ refreshing > 0
  /\ refreshing' = refreshing - 1
  /\ conversationError' = CaughtMessage(f, "Failed to load conversations")
  /\ UNCHANGED <<selectPc, selectId, currentConversationId, messages,
                 isLoading, conversations, removal>>
  /\ ReconcilerFrame

\* newConversation() (196-200)
newConversation ==
  /\ currentConversationId' = Null
  /\ messages' = << >>
  /\ conversationError' = Null
  /\ UNCHANGED <<selectPc, selectId, isLoading, listVars>>
  /\ ReconcilerFrame

\* selectConversation(id) up to `await getConversation(id)` (203-208)
selectConversation(s, id) ==
  /\ selectPc[s] = "idle"
  /\ \A t \in Selects : t < s => selectPc[t] # "idle"
  /\ isLoading' = TRUE
  /\ conversationError' = Null
  /\ selectPc' = [selectPc EXCEPT ![s] = "await"]
  /\ selectId' = [selectId EXCEPT ![s] = id]
  /\ UNCHANGED <<currentConversationId, messages, listVars>>
  /\ ReconcilerFrame

\* getConversation resolved: the rest of the try block and the finally
\* block (208-238)
GetConversationOk(s) ==
  /\ selectPc[s] = "await"
  /\ currentConversationId' = selectId[s]
  /\ messages' = transformedMessages(persisted[selectId[s]])
  /\ isLoading' = FALSE
  /\ selectPc' = [selectPc EXCEPT ![s] = "done"]
  /\ UNCHANGED <<selectId, conversationError, listVars>>
  /\ ReconcilerFrame

\* getConversation rejected: the catch block and the finally block (233-238)
GetConversationFail(s, f) ==
  /\ selectPc[s] = "await"
  /\ conversationError' = CaughtMessage(f, "Failed to load conversation")
  /\ isLoading' = FALSE
  /\ selectPc' = [selectPc EXCEPT ![s] = "failed"]
  /\ UNCHANGED <<selectId, currentConversationId, messages, listVars>>
  /\ ReconcilerFrame

\* removeConversation(id) up to `await deleteConversation(id)` (242-245);
\* the callback is the one of the current render, whose closure holds the
\* current currentConversationId (257)
removeConversation(id) ==
  /\ removal = << >>
  /\ removal' = << [id |-> id, currentConversationId |-> currentConversationId] >>
  /\ UNCHANGED <<selectPc, selectId, currentConversationId, messages,
                 isLoading, conversationError, conversations, refreshing>>
  /\ ReconcilerFrame

\* deleteConversation resolved: the conversation leaves the list, and
\* newConversation() runs when it was the current one of the closure
\* (246-251)
DeleteConversationOk ==
  /\ removal # << >>
  /\ removal' = << >>
  /\ conversations' = SelectSeq(conversations, LAMBDA c : c # removal[1].id)
  /\ IF removal[1].currentConversationId = removal[1].id
       THEN /\ currentConversationId' = Null
            /\ messages' = << >>
            /\ conversationError' = Null
       ELSE UNCHANGED <<currentConversationId, messages, conversationError>>
  /\ UNCHANGED <<selectPc, selectId, isLoading, refreshing>>
  /\ ReconcilerFrame

\* deleteConversation rejected: the catch block (252-255)
DeleteConversationFail(f) ==
  /\ removal # << >>
  /\ removal' = << >>
  /\ conversationError' = CaughtMessage(f, "Failed to delete conversation")
  /\ UNCHANGED <<selectPc, selectId, currentConversationId, messages,
                 isLoading, conversations, refreshing>>
  /\ ReconcilerFrame

\* addMessage(message) (261-263)
addMessage(message) ==
  /\ Len(messages) < MaxMessages
  /\ messages' = Append(messages, message)
  /\ UNCHANGED <<selectPc, selectId, currentConversationId, isLoading,
                 conversationError, listVars>>
  /\ ReconcilerFrame

\* updateLastMessage(update) (266-272)
updateLastMessage(update) ==
  /\ messages' = IF Len(messages) = 0 THEN messages
                 ELSE Append(Front(messages), Spread(Last(messages), update))
  /\ UNCHANGED <<selectPc, selectId, currentConversationId, isLoading,
                 conversationError, listVars>>
  /\ ReconcilerFrame

ReconcilerNext ==
  \/ refreshConversations
  \/ \E listing \in Listings : GetConversationsOk(listing)
  \/ \E f \in ApiFailures : GetConversationsFail(f)
  \/ newConversation
  \/ \E s \in Selects : \E id \in ConversationIds : selectConversation(s, id)
  \/ \E s \in Selects : GetConversationOk(s)
  \/ \E s \in Selects : \E f \in ApiFailures : GetConversationFail(s, f)
  \/ \E id \in ConversationIds : removeConversation(id)
  \/ DeleteConversationOk
  \/ \E f \in ApiFailures : DeleteConversationFail(f)
  \/ \E message \in AddedMessages : addMessage(message)
  \/ \E update \in Updates : updateLastMessage(update)

ReconcilerSpec == ReconcilerInit /\ [][ReconcilerNext]_vars


(***************************************************************************)
(* Vocabulary of the reconstruction properties.                            *)
(***************************************************************************)
\* the loop has been through every record of detail.messages
LoopEnded == cursor = Len(detailMessages)

\* the records the messages are made from, and the messages made
Shown == detailMessages
Made == locals.transformedMessages

\* the queries a record's tool calls carry
QueriesOf(m) ==
  { m.tool_calls[k] : k \in {n \in DOMAIN m.tool_calls : Truthy(m.tool_calls[n])} }

\* an assistant record with and without user-visible text
ContentBearing(m) == m.role = "assistant" /\ trim(m.content) # ""
PureToolTurn(m) == m.role = "assistant" /\ trim(m.content) = "" /\ QueriesOf(m) # {}

\* the position of the first content-bearing assistant record after i, 0
\* when there is none
NextBearing(h, i) ==
  IF \E j \in (i + 1)..Len(h) : ContentBearing(h[j])
    THEN Least({j \in (i + 1)..Len(h) : ContentBearing(h[j])})
    ELSE 0

\* the messages made from the record with this id
MessagesOf(id) == { k \in 1..Len(Made) : Made[k].id = id }

ExampleMessages ==
  << Message("m1", "user", "Q1", Null),
     Message("m3", "assistant", "Answer", "SELECT 1") >>

\* C20 as stated: an assistant record with empty content that carries a
\* tool-call query makes no message, and the next content-bearing assistant
\* message has that query as its artifact; the example history gives
\* exactly the two example messages.
C20_PendingQueryAttached ==
  LoopEnded =>
    /\ \A i \in 1..Len(Shown) :
         PureToolTurn(Shown[i]) =>
           /\ MessagesOf(Shown[i].id) = {}
           /\ NextBearing(Shown, i) # 0 =>
                \E k \in MessagesOf(Shown[NextBearing(Shown, i)].id) :
                  Made[k].sqlQuery \in QueriesOf(Shown[i])
    /\ Shown = ExampleHistory => Made = ExampleMessages

\* C20, amended: an assistant record with empty content and one tool call
\* carrying a query makes no message, and the next content-bearing assistant
\* message has that query as its artifact provided no record after it, up to
\* and including that message's record, carries a tool-call query of its
\* own; the example history gives exactly the two example messages.
C20_PendingQueryAttachedUnlessReplaced ==
  LoopEnded =>
    /\ \A i \in 1..Len(Shown) :
         PureToolTurn(Shown[i]) =>
           /\ MessagesOf(Shown[i].id) = {}
           /\ ( /\ Len(Shown[i].tool_calls) = 1
                /\ NextBearing(Shown, i) # 0
                /\ \A j \in (i + 1)..NextBearing(Shown, i) : QueriesOf(Shown[j]) = {} )
                => \E k \in MessagesOf(Shown[NextBearing(Shown, i)].id) :
                     Made[k].sqlQuery = Shown[i].tool_calls[1]
    /\ Shown = ExampleHistory => Made = ExampleMessages

\* the loop has been through the example history and its two messages were made
C20_Witness ==
  /\ LoopEnded
  /\ Shown = ExampleHistory
  /\ Made = ExampleMessages


\* the largest element of a non-empty set of integers
Greatest(S) == CHOOSE x \in S : \A y \in S : y <= x

\* the position in the conversation shown of the record message k was made
\* from
RecordOf(k) == CHOOSE p \in 1..Len(Shown) : Shown[p].id = Made[k].id

\* the position of the last content-bearing assistant record before p, 0
\* when there is none
PrevBearing(h, p) ==
  IF \E j \in 1..(p - 1) : ContentBearing(h[j])
    THEN Greatest({j \in 1..(p - 1) : ContentBearing(h[j])})
    ELSE 0

\* the queries carried by the records after the previous content-bearing
\* assistant record up to and including record p: the tool calls that
\* belong to the assistant turn of record p
WindowQueries(h, p) ==
  UNION { QueriesOf(h[j]) : j \in (PrevBearing(h, p) + 1)..p }

\* C21: an artifact is attached to one message at most: the artifact of an
\* assistant message is null when no record since the previous assistant
\* message carries a tool-call query, and otherwise it is a query of a tool
\* call made since the previous assistant message, never one made before
\* it.
C21_ArtifactFromOwnTurn ==
  LoopEnded =>
    \A k \in 1..Len(Made) :
      Made[k].role = "assistant" =>
        IF WindowQueries(Shown, RecordOf(k)) = {}
          THEN Made[k].sqlQuery = Null
          ELSE Made[k].sqlQuery \in WindowQueries(Shown, RecordOf(k))

\* a conversation of two content-bearing assistant turns, each preceded by
\* a tool call of its own, is shown and each message has its own query
C21_Witness ==
  /\ LoopEnded
  /\ Shown = History(<< Record("assistant", "", << "SELECT 1" >>),
                        Record("assistant", "Answer", << >>),
                        Record("assistant", "", << "SELECT 2" >>),
                        Record("assistant", "Answer", << >>) >>)
  /\ Made = << Message("m2", "assistant", "Answer", "SELECT 1"),
                   Message("m4", "assistant", "Answer", "SELECT 2") >>


\* the query of the last tool call of record m that carries one
LastQueryOf(m) ==
  m.tool_calls[Greatest({n \in DOMAIN m.tool_calls : Truthy(m.tool_calls[n])})]

\* the query of the last tool invocation made since the previous
\* content-bearing assistant record, up to and including record p
LastInvocation(h, p) ==
  LastQueryOf(h[Greatest({j \in (PrevBearing(h, p) + 1)..p : QueriesOf(h[j]) # {}})])

\* C23: when several tool invocations carrying a query come before a
\* content-bearing assistant turn, in one record's list or in several
\* records, the artifact of that turn's message is the query of the last of
\* them.
C23_LastInvocationWins ==
  LoopEnded =>
    \A k \in 1..Len(Made) :
      (Made[k].role = "assistant" /\ WindowQueries(Shown, RecordOf(k)) # {})
        => Made[k].sqlQuery = LastInvocation(Shown, RecordOf(k))

\* the records between positions i and j, exclusive, are all user records
OnlyUsersBetween(h, i, j) == \A n \in (i + 1)..(j - 1) : h[n].role = "user"

\* a record that captures a query and emits no assistant message
CapturesOnly(m) == ~ContentBearing(m) /\ m.role # "tool" /\ QueriesOf(m) # {}

\* C28 as stated: a query captured from a record that emits no assistant
\* message survives the user records that follow it (one or more) and is
\* the artifact of the next content-bearing assistant message; every user
\* message has a null artifact.
C28_PendingSurvivesUserTurns ==
  LoopEnded =>
    /\ \A k \in 1..Len(Made) :
         Made[k].role = "user" => Made[k].sqlQuery = Null
    /\ \A i \in 1..Len(Shown) :
         ( /\ CapturesOnly(Shown[i])
           /\ NextBearing(Shown, i) > i + 1
           /\ OnlyUsersBetween(Shown, i, NextBearing(Shown, i)) )
           => \E k \in MessagesOf(Shown[NextBearing(Shown, i)].id) :
                Made[k].sqlQuery \in QueriesOf(Shown[i])

\* C28, amended: a query captured from a record with one tool call that
\* emits no assistant message survives the user records that follow it (one
\* or more) and is the artifact of the next content-bearing assistant
\* message, provided
\* that message's record carries no tool-call query of its own; every user
\* message has a null artifact.
C28_PendingSurvivesUserTurnsUnlessOwn ==
  LoopEnded =>
    /\ \A k \in 1..Len(Made) :
         Made[k].role = "user" => Made[k].sqlQuery = Null
    /\ \A i \in 1..Len(Shown) :
         ( /\ CapturesOnly(Shown[i])
           /\ Len(Shown[i].tool_calls) = 1
           /\ NextBearing(Shown, i) > i + 1
           /\ OnlyUsersBetween(Shown, i, NextBearing(Shown, i))
           /\ QueriesOf(Shown[NextBearing(Shown, i)]) = {} )
           => \E k \in MessagesOf(Shown[NextBearing(Shown, i)].id) :
                Made[k].sqlQuery = Shown[i].tool_calls[1]

\* a conversation in which two user messages come between a pure tool turn
\* and the next assistant answer is shown: the user messages have no
\* artifact and the answer has the tool turn's query
C28_Witness ==
  /\ LoopEnded
  /\ Shown = History(<< Record("assistant", "", << "SELECT 1" >>),
                        Record("user", "Q1", << >>),
                        Record("user", "Q1", << >>),
                        Record("assistant", "Answer", << >>) >>)
  /\ Made = << Message("m2", "user", "Q1", Null),
                   Message("m3", "user", "Q1", Null),
                   Message("m4", "assistant", "Answer", "SELECT 1") >>


\* C29: when the second of two selectConversation calls completes, the
\* conversation shown is the one the later call asked for, with its
\* reconstructed messages, whichever response arrived first; and a call
\* that fails leaves currentConversationId and messages as they were.
C29_LaterSelectionWins ==
  [][ /\ ( /\ selectPc' # selectPc
           /\ selectPc'[1] = "done" /\ selectPc'[2] = "done" )
           => /\ currentConversationId' = selectId'[2]
              /\ messages' = transformedMessages(persisted[selectId'[2]])
      /\ \A s \in Selects :
           (selectPc[s] = "await" /\ selectPc'[s] = "failed")
             => UNCHANGED <<currentConversationId, messages>> ]_vars


(***************************************************************************)
(* ChatInterface (components/ChatInterface.tsx 53-145): handleSubmit and   *)
(* the callbacks it hands to executeQuery, on the `messages` state of      *)
(* useConversation (app/page.tsx 93: onMessagesChange is setMessages).     *)
(* Every submission's stream is followed until executeQuery returns,       *)
(* whatever isStreaming is meanwhile: the Stop button's cancelQuery clears *)
(* isStreaming and the ref, and the loop of executeQuery reads on.  The    *)
(* props change by newConversation and by one selection; the sidebar's     *)
(* removeConversation, which changes them as newConversation does, is      *)
(* followed under ReconcilerSpec.                                          *)
(***************************************************************************)
\* Date.now() at a submission: the same millisecond, or a second later
Now == 1700000
Times == {Now, Now + 1000}
\* what the input field holds at a submission
Inputs == {"  ", " Q1 "}

\* const lastMsg = prev[prev.length - 1]; lastMsg.id (83-84, 93-94,
\* 109-110): on an empty list lastMsg is undefined and reading its id
\* throws a TypeError
Throws(prev) == prev = << >>

\* the updater of onToken (82-88)
onTokenUpdate(prev, assistantMessageId, token) ==
  IF Last(prev).id = assistantMessageId
    THEN Append(Front(prev), [Last(prev) EXCEPT !.content = @ \o token])
    ELSE prev

\* the updater of onSql (92-98)
onSqlUpdate(prev, assistantMessageId, query) ==
  IF Last(prev).id = assistantMessageId
    THEN Append(Front(prev), [Last(prev) EXCEPT !.sqlQuery = query])
    ELSE prev

\* the updater of onComplete (108-121)
onCompleteUpdate(prev, assistantMessageId, streamResult) ==
  IF Last(prev).id = assistantMessageId
    THEN Append(Front(prev),
                [Last(prev) EXCEPT !.content = OrElse(streamResult.answer, @),
                                   !.sqlQuery = streamResult.sqlQuery])
    ELSE prev

\* the updater a callback hands to onMessagesChange
Update(x, prev, c) ==
  CASE x.cb = "onToken" -> onTokenUpdate(prev, c.assistantMessageId, x.a)
    [] x.cb = "onSql" -> onSqlUpdate(prev, c.assistantMessageId, x.a)
    [] x.cb = "onComplete" -> onCompleteUpdate(prev, c.assistantMessageId, x.res[1])

ChatInit ==
  /\ ControllerUnused /\ DecoderUnused /\ ClientUnused /\ LoopUnused
  /\ persisted = [id \in ConversationIds |->
                    IF id = "conv-A" THEN ExampleHistory ELSE OtherHistory]
  /\ selectPc = [s \in Selects |-> "idle"]
  /\ selectId = [s \in Selects |-> Null]
  /\ currentConversationId = Null
  /\ messages = << >>
  /\ isLoading = FALSE
  /\ conversationError = Null
  /\ conversations = << >>
  /\ refreshing = 1
  /\ removal = << >>
  /\ submission = << >>
  /\ chatError = Null
  /\ invoked = << >>

\* what the steps of a submission leave alone: the server's data, the
\* selectConversation calls, and the state of the other components (the
\* rest of the controller's own state is followed under Spec)
ChatFrame ==
  UNCHANGED <<persisted, selectPc, selectId, isLoading, conversationError,
              conversations, removal, loopVars,
              streamedContent, currentSqlQuery, currentStage, error, callVars,
              decoderVars, clientVars>>

\* handleSubmit up to `await executeQuery` (53-79), and executeQuery up to
\* its first await (useStreamingQuery.ts 70-78).  The closure holds the
\* messages, conversationId and error of the render it was created in
handleSubmit(input, now) ==
  /\ Len(submission) < MaxCalls
  /\ \A s \in DOMAIN submission : submission[s].now <= now
  /\ trim(input) # "" /\ ~isStreaming
  /\ messages' =
       messages \o << Message(toDecimal(now), "user", trim(input), Undefined),
                      Message(toDecimal(now + 1), "assistant", "", Undefined) >>
  /\ chatError' = Null
  /\ submission' =
       Append(submission,
              [assistantMessageId |-> toDecimal(now + 1),
               newMessages |->
                 Append(messages, Message(toDecimal(now), "user", trim(input), Undefined)),
               conversationId |-> currentConversationId,
               error |-> chatError,
               now |-> now,
               result |-> FALSE,
               running |-> TRUE])
  /\ aborted' = AbortCurrent
  /\ abortedIn' = AbortPhase
  /\ abortControllerRef' = Len(submission) + 1
  /\ isStreaming' = TRUE
  /\ UNCHANGED <<currentConversationId, refreshing, invoked, nevents>>
  /\ ChatFrame

\* the Stop button, rendered while isStreaming, calls cancelQuery (207-210)
Stop == isStreaming /\ cancelQuery

\* the test of onComplete (101-104): the submission began a conversation
\* and the result names it
ConversationCreated(x, c) ==
  /\ x.cb = "onComplete"
  /\ ~Truthy(c.conversationId)
  /\ Truthy(x.res[1].conversationId)

\* what onError calls openSettings with (128-134), Null when it does not
OpenedSettings(errorCode) ==
  IF errorCode \in {"rate_limit", "insufficient_quota", "invalid_api_key"}
    THEN errorCode ELSE Null

\* setError of line 141
FailedResponse == "Failed to get a response. Please try again."

\* executeQuery of submission s returns: its finally block
\* (useStreamingQuery.ts 118-121), then the rest of handleSubmit (138-145).
\* hasResult tells whether the value returned is a StreamResult; msgs and
\* err are the messages and the error the step has set before
Returns(s, hasResult, msgs, err) ==
  /\ isStreaming' = FALSE
  /\ abortControllerRef' = NoController
  /\ submission' = [submission EXCEPT ![s].running = FALSE]
  /\ IF ~hasResult /\ ~Truthy(submission[s].error)
       THEN /\ chatError' = FailedResponse
            /\ messages' = submission[s].newMessages
       ELSE /\ chatError' = err
            /\ messages' = msgs

\* the stream of submission s yields event e to executeQuery's loop, which
\* leaves at the test of line 85 or invokes the callback of e (80-135);
\* onStage is not among the callbacks handed over.  onConversationCreated
\* is refreshConversations (app/page.tsx 95), which runs up to its await
Invoke(s, e) ==
  /\ s \in DOMAIN submission /\ submission[s].running
  /\ nevents < MaxEvents
  /\ Dispatch(e) # << >>
  /\ nevents' = nevents + 1
  /\ IF LoopAborted
       THEN /\ Returns(s, submission[s].result, messages, chatError)
            /\ UNCHANGED <<invoked, currentConversationId, refreshing>>
       ELSE
     CASE Dispatch(e)[1].cb = "onStage" ->
            /\ invoked' = << [cb |-> "onStage", threw |-> FALSE, by |-> s,
                              opened |-> Null] >>
            /\ UNCHANGED <<messages, chatError, currentConversationId,
                           refreshing, submission, isStreaming,
                           abortControllerRef>>
       [] Dispatch(e)[1].cb = "onError" ->
            /\ chatError' = Dispatch(e)[1].a
            /\ messages' = submission[s].newMessages
            /\ invoked' = << [cb |-> "onError", threw |-> FALSE, by |-> s,
                              opened |-> OpenedSettings(Dispatch(e)[1].b)] >>
            /\ UNCHANGED <<currentConversationId, refreshing, submission,
                           isStreaming, abortControllerRef>>
       [] OTHER ->
            /\ invoked' = << [cb |-> Dispatch(e)[1].cb, threw |-> Throws(messages),
                              by |-> s, opened |-> Null] >>
            /\ messages' = IF Throws(messages) THEN messages
                           ELSE Update(Dispatch(e)[1], messages, submission[s])
            /\ currentConversationId' =
                 IF ConversationCreated(Dispatch(e)[1], submission[s])
                   THEN Dispatch(e)[1].res[1].conversationId
                   ELSE currentConversationId
            /\ refreshing' =
                 IF ConversationCreated(Dispatch(e)[1], submission[s])
                   THEN refreshing + 1 ELSE refreshing
            /\ submission' =
                 IF Dispatch(e)[1].cb = "onComplete"
                   THEN [submission EXCEPT ![s].result = TRUE]
                   ELSE submission
            /\ UNCHANGED <<chatError, isStreaming, abortControllerRef>>
  /\ UNCHANGED <<aborted, abortedIn>>
  /\ ChatFrame

\* the stream of submission s fails (fetch rejects, a status that is not
\* ok, no body, a read rejects): the catch block of executeQuery calls
\* onError(errorMsg) and returns null (useStreamingQuery.ts 113-117)
StreamFails(s, f) ==
  /\ s \in DOMAIN submission /\ submission[s].running
  /\ nevents < MaxEvents
  /\ nevents' = nevents + 1
  /\ invoked' = << [cb |-> "onError", threw |-> FALSE, by |-> s,
                    opened |-> OpenedSettings(Undefined)] >>
  /\ Returns(s, FALSE, submission[s].newMessages, TransportMessage(f))
  /\ UNCHANGED <<currentConversationId, refreshing, aborted, abortedIn>>
  /\ ChatFrame

\* the stream of submission s ends and executeQuery returns `result`
\* (useStreamingQuery.ts 112)
StreamEnds(s) ==
  /\ s \in DOMAIN submission /\ submission[s].running
  /\ Returns(s, submission[s].result, messages, chatError)
  /\ UNCHANGED <<currentConversationId, refreshing, invoked, nevents,
                 aborted, abortedIn>>
  /\ ChatFrame

ChatNext ==
  \/ \E input \in Inputs : \E now \in Times : handleSubmit(input, now)
  \/ Stop
  \/ \E s \in Calls : \E e \in Events : Invoke(s, e)
  \/ \E s \in Calls : \E f \in TransportFailures \cup ReadFailures : StreamFails(s, f)
  \/ \E s \in Calls : StreamEnds(s)
  \/ newConversation
  \/ \E id \in ConversationIds : selectConversation(1, id)
  \/ GetConversationOk(1)
  \/ \E f \in ApiFailures : GetConversationFail(1, f)
  \/ \E listing \in Listings : GetConversationsOk(listing)
  \/ \E f \in ApiFailures : GetConversationsFail(f)

ChatSpec == ChatInit /\ [][ChatNext]_vars

\* C30: an invocation of onToken, onSql or onComplete changes the message
\* list only when its last element is the submission's placeholder, and
\* then only that element; in every other state of the list, the empty
\* list included, it leaves the list as it is and nothing is thrown.
C30_HandlersTouchOnlyPlaceholder ==
  [][ (nevents' # nevents /\ invoked'[1].cb \in {"onToken", "onSql", "onComplete"})
        => /\ ~invoked'[1].threw
           /\ IF messages # << >>
                 /\ Last(messages).id = submission[invoked'[1].by].assistantMessageId
                THEN /\ Len(messages') = Len(messages)
                     /\ Front(messages') = Front(messages)
                ELSE messages' = messages ]_vars


\* C27: when the body ends with a frame that no blank line closes, that
\* frame is never yielded, whatever its payload: what was yielded is what
\* the body without it yields, its text is what is left in the buffer, and
\* the decoder has ended.
C27_UnterminatedFrameDropped ==
  (generator = "end" /\ frames # << >> /\ Last(frames).end = "")
    => /\ yielded = DecodeChunk("", Source(Front(frames))).yields
       /\ buffer = FrameText(Last(frames))

\* a body of a closed token frame and an unclosed done frame was read to its
\* end: only the token was yielded
C27_Witness ==
  /\ generator = "end"
  /\ frames = << Frame(<< Line(DataMarker, JsonToken) >>, "\n\n"),
                 Frame(<< Line(DataMarker, JsonDone) >>, "") >>
  /\ yielded = << TokenEvent("Hi") >>


\* C22: the step that ends an executeQuery call, by a return, a failure or
\* after a cancellation, leaves isStreaming false and the ref null; and
\* cancelQuery() called while isStreaming is false and the ref is null
\* changes nothing and invokes no observer.
C22_EndClearsAndIdleCancelIsNoOp ==
  [][ /\ \A c \in Calls :
           (~Ended(c) /\ pc'[c] \in {"returned", "caught"})
             => (isStreaming' = FALSE /\ abortControllerRef' = NoController)
      /\ (~isStreaming /\ abortControllerRef = NoController /\ cancelQuery)
           => UNCHANGED vars ]_vars

\* calls have ended in each of the three ways (one returned a result, one
\* failed, or one returned after its cancellation), and the controller is
\* inactive
C22_Witness ==
  /\ ~isStreaming /\ abortControllerRef = NoController
  /\ \E c \in Calls : pc[c] = "returned" /\ Cancelled(c) /\ abortedIn[c] = "read"
  /\ \E c \in Calls : pc[c] = "caught" \/ retval[c] # << >>


\* the executeQuery call started last, 0 when none has started
LatestCall ==
  IF \E c \in Calls : Started(c) THEN Greatest({c \in Calls : Started(c)}) ELSE 0

\* C24: streamedContent is the concatenation, in order, of the token
\* fragments the most recently started call has received so far; nothing of
\* an earlier call is in it.
C24_TextOfLatestCall ==
  streamedContent =
    (IF LatestCall = 0 THEN "" ELSE TokenText(processed[LatestCall]))

\* C25: cancelQuery() on an active request resets the session state at
\* once: streamedContent is empty, currentSqlQuery and currentStage are null
\* and isStreaming is false.
C25_CancelResetsSession ==
  [][ (isStreaming /\ cancelQuery)
        => /\ streamedContent' = ""
           /\ currentSqlQuery' = Null
           /\ currentStage' = Null
           /\ isStreaming' = FALSE ]_vars

\* C26: isStreaming is true exactly when some executeQuery call has started
\* and has not yet returned.
C26_StreamingIffCallRunning ==
  isStreaming <=> \E c \in Calls : Started(c) /\ ~Ended(c)

=============================================================================
